---------------------------- MODULE Spec2Model ----------------------------
(***************************************************************************)
(* Model of the project-collaboration backend (the versioned "app"         *)
(* package): the relational rows (users, projects, documents, images,      *)
(* participant_project), the three object-storage buckets, and one action  *)
(* per CRUD operation of app/crud.  An action on a user id models a        *)
(* request that already passed the JWT middleware and                      *)
(* get_authenticated_user, so the requester is an existing User row; the   *)
(* Http actions model requests from the Authorization header on, through   *)
(* the middleware.                                                         *)
(*                                                                         *)
(* `last' records the request that the latest step completed (operation,   *)
(* requester, target id, argument, storage outcomes, HTTP status), which   *)
(* is what the properties about status codes are stated on.  Deliver hands *)
(* the response to the client and clears the record.                       *)
(***************************************************************************)
EXTENDS Naturals, Integers, Sequences, FiniteSets, TLC

\* ---------------------------------------------------------------- bounds
MaxUsers     == 2   \* registered users
MaxProjects  == 2   \* project_id sequence is used up to this value
MaxDocuments == 2   \* document_id sequence is used up to this value
MaxImages    == 1   \* image_id sequence is used up to this value
MaxBatch     == 1   \* files in one upload_documents request
MaxInflight  == 2   \* upload_documents requests in flight at once
MaxLifetimes == 1   \* the clock runs over this many access-token lifetimes
MaxReplacements == 1 \* logos uploaded over an existing logo

\* ---------------------------------------------------------------- inputs
EmailOf       == <<"a@x", "b@x", "c@x", "d@x">>
Emails        == {EmailOf[i] : i \in 1..(MaxUsers + 1)}   \* one email stays unregistered
Passwords     == {"pw", "qw"}
ProjectNames  == {"P"}
Descriptions  == {"D"}
DocNames      == {"doc.txt"}
Contents      == {"c1"}
\* logo file names are character sequences: upload_to_s3 splits the key at "."
LogoNames     == { <<"l", ".", "p">> }
\* the file names of a logo and of the logo that replaces it
NewLogoNames  == LogoNames \cup { <<"m", ".", "p">> }

\* ProjectBaseUpdate: name and description, each optional
PatchNames        == {"P", "Q"}
PatchDescriptions == {"D", "E"}
Patches == [name : PatchNames \cup {"<absent>"}, description : PatchDescriptions \cup {"<absent>"}]
Files   == [filename : DocNames, content : Contents]
\* batches of one or two files under two file names
FileBatches ==
    UNION {[1..n -> [filename : DocNames \cup {"b.txt"}, content : Contents]]
               : n \in 1..(MaxBatch + 1)}
\* the same file names with either of two contents
Versions == [filename : DocNames, content : Contents \cup {"c2"}]
Batches == UNION {[1..n -> Files] : n \in 1..MaxBatch}

NULL == 0           \* SQL NULL / Python None for ids

VARIABLES
    users,                \* table users: [user_id, email, hashed_password]
    projects,             \* table projects: [project_id, owner_id, name, description, logo_id]
    documents,            \* table documents: [document_id, document_name, s3_key, project_id]
    images,               \* table images: [image_id, s3_key, image_name]
    participant_project,  \* association table: [project_id, user_id]
    sequences,            \* next value of each primary-key sequence
    bucket_docs,          \* BUCKET_NAME: function s3_key -> content
    bucket_logos,         \* BUCKET_NAME_LOGOS: set of keys
    bucket_resize,        \* BUCKET_RESIZE: set of keys
    inflight,             \* upload_documents requests suspended inside their transaction
    last,                 \* the response in flight: the request the latest step completed
    request,              \* what JWTAuthMiddleware made of the latest request
    clock                 \* datetime.now(), in minutes

tables  == <<users, projects, documents, images, participant_project>>
buckets == <<bucket_docs, bucket_logos, bucket_resize>>
\* the request pipeline in front of the handlers
env     == <<request, clock>>
vars    == <<users, projects, documents, images, participant_project, sequences,
             bucket_docs, bucket_logos, bucket_resize, inflight, last, request, clock>>

\* ------------------------------------------------------------ row lookup
UserIds     == {u.user_id : u \in users}
ProjectIds  == {p.project_id : p \in projects}
DocumentIds == {d.document_id : d \in documents}

UserById(uid)    == CHOOSE u \in users : u.user_id = uid
UserByEmail(e)   == CHOOSE u \in users : u.email = e
ProjectById(pid) == CHOOSE p \in projects : p.project_id = pid
DocumentById(did) == CHOOSE d \in documents : d.document_id = did
ImageById(iid)   == CHOOSE i \in images : i.image_id = iid

\* s3: the outcomes of the storage calls the request made, in call order
ResponseS3(op, uid, id, arg, s3, status) ==
    [op |-> op, user |-> uid, id |-> id, arg |-> arg, s3 |-> s3, status |-> status]
Response(op, uid, id, arg, status) == ResponseS3(op, uid, id, arg, <<>>, status)

\* no request has gone through the middleware yet
NoPayload == [exp |-> 0, sub |-> ""]
NoRequest == [path |-> <<>>, authorization |-> <<>>, state |-> "none", user |-> NoPayload,
              detail |-> ""]

\* -------------------------------------------------------- authorization
\* crud/project.py is_participant
is_participant(user_id, project_id) ==
    [project_id |-> project_id, user_id |-> user_id] \in participant_project

\* a gate that forgets the owner-or-participant test
get_project_open(project_id, user_id) ==
    IF project_id \notin ProjectIds THEN 404 ELSE 200

\* crud/project.py get_project: the status of the authorization gate
get_project(project_id, user_id) ==
    IF project_id \notin ProjectIds THEN 404
    ELSE IF user_id = ProjectById(project_id).owner_id
            \/ is_participant(user_id, project_id) THEN 200
    ELSE 403

\* ------------------------------------------------------------------ Init
Init ==
    /\ users = {}
    /\ projects = {}
    /\ documents = {}
    /\ images = {}
    /\ participant_project = {}
    /\ sequences = [users |-> 1, projects |-> 1, documents |-> 1, images |-> 1]
    /\ bucket_docs = <<>>
    /\ bucket_logos = {}
    /\ bucket_resize = {}
    /\ inflight = {}
    /\ last = Response("none", NULL, NULL, <<>>, 0)
    /\ request = NoRequest
    /\ clock = 0

\* --------------------------------------------------------------- users
\* security.py get_hashed_password / verify_password: a salted one-way hash,
\* modelled as a tagged value that only verify_password can compare.
get_hashed_password(password) == <<"bcrypt", password>>
\* a verification that accepts every password
verify_password_any(password, hashed_pass) == TRUE
verify_password(password, hashed_pass) == hashed_pass = <<"bcrypt", password>>

\* crud/user.py create_new_user
create_new_user(email, password, repeat_password) ==
    LET status == IF \E u \in users : u.email = email THEN 400
                  ELSE IF password # repeat_password THEN 400
                  ELSE 200
    IN  /\ IF status = 200
           THEN /\ users' = users \cup {[user_id |-> sequences.users, email |-> email,
                                         hashed_password |-> get_hashed_password(password)]}
                /\ sequences' = [sequences EXCEPT !.users = @ + 1]
           ELSE UNCHANGED <<users, sequences>>
        /\ last' = Response("create_new_user", NULL, NULL,
                             <<email, password, repeat_password>>, status)
        /\ UNCHANGED <<projects, documents, images, participant_project, buckets, inflight>>

\* The same code as create_new_user, cut where its transaction can be overtaken
\* by another request: after the SELECT and the two checks, and at the commit
\* that flushes the INSERT.  users.email is unique=True, so the INSERT of an
\* email that another transaction committed meanwhile raises IntegrityError,
\* which nothing catches: the request ends in 500 and stores nothing.
register_begin(req, email, password, repeat_password) ==
    LET status == IF \E u \in users : u.email = email THEN 400
                  ELSE IF password # repeat_password THEN 400
                  ELSE 0
    IN  /\ \A t \in inflight : t.req # req
        /\ IF status = 0
           THEN /\ inflight' = inflight \cup {[req |-> req, email |-> email,
                                               password |-> password, pc |-> "insert"]}
                /\ last' = Response("create_new_user.begin", NULL, NULL,
                                    <<email, password, repeat_password>>, 0)
           ELSE /\ UNCHANGED inflight
                /\ last' = Response("create_new_user", NULL, NULL,
                                    <<email, password, repeat_password>>, status)
        /\ UNCHANGED <<tables, sequences, buckets>>

\* a commit on a column that is not unique
register_commit_not_unique(t) ==
    /\ t.pc = "insert"
    /\ users' = users \cup {[user_id |-> sequences.users, email |-> t.email,
                             hashed_password |-> get_hashed_password(t.password)]}
    /\ sequences' = [sequences EXCEPT !.users = @ + 1]
    /\ inflight' = inflight \ {t}
    /\ last' = Response("create_new_user", NULL, NULL, <<t.email, t.password, t.password>>, 200)
    /\ UNCHANGED <<projects, documents, images, participant_project, buckets>>

register_commit(t) ==
    /\ t.pc = "insert"
    /\ IF \E u \in users : u.email = t.email
       THEN /\ UNCHANGED <<users, sequences>>
            /\ last' = Response("create_new_user", NULL, NULL,
                                <<t.email, t.password, t.password>>, 500)
       ELSE /\ users' = users \cup {[user_id |-> sequences.users, email |-> t.email,
                                     hashed_password |-> get_hashed_password(t.password)]}
            /\ sequences' = [sequences EXCEPT !.users = @ + 1]
            /\ last' = Response("create_new_user", NULL, NULL,
                                <<t.email, t.password, t.password>>, 200)
    /\ inflight' = inflight \ {t}
    /\ UNCHANGED <<projects, documents, images, participant_project, buckets>>

\* ------------------------------------------------------------ projects
\* a create that refuses a name the owner already uses
create_project_unique_name(user_id, name, description) ==
    IF \E p \in projects : p.owner_id = user_id /\ p.name = name
    THEN /\ last' = Response("create_project", user_id, NULL, <<name, description>>, 400)
         /\ UNCHANGED <<tables, sequences, buckets, inflight>>
    ELSE /\ projects' = projects \cup {[project_id |-> sequences.projects, owner_id |-> user_id,
                                        name |-> name, description |-> description,
                                        logo_id |-> NULL]}
         /\ sequences' = [sequences EXCEPT !.projects = @ + 1]
         /\ last' = Response("create_project", user_id, sequences.projects,
                              <<name, description>>, 200)
         /\ UNCHANGED <<users, documents, images, participant_project, buckets, inflight>>

\* crud/project.py create_project
create_project(user_id, name, description) ==
    /\ projects' = projects \cup {[project_id |-> sequences.projects, owner_id |-> user_id,
                                   name |-> name, description |-> description,
                                   logo_id |-> NULL]}
    /\ sequences' = [sequences EXCEPT !.projects = @ + 1]
    /\ last' = Response("create_project", user_id, sequences.projects,
                         <<name, description>>, 200)
    /\ UNCHANGED <<users, documents, images, participant_project, buckets, inflight>>

\* crud/project.py update_project: only the fields present in the patch are set
Absent == "<absent>"

\* an update that writes both fields of the patch, supplied or not
update_project_overwrite(user_id, project_id, project_data) ==
    LET gate == get_project(project_id, user_id)
    IN  /\ IF gate = 200
           THEN projects' = {IF p.project_id # project_id THEN p
                             ELSE [p EXCEPT !.name = project_data.name,
                                            !.description = project_data.description]
                             : p \in projects}
           ELSE UNCHANGED projects
        /\ last' = Response("update_project", user_id, project_id,
                            <<project_data.name, project_data.description>>, gate)
        /\ UNCHANGED <<users, documents, images, participant_project, sequences,
                       buckets, inflight>>

update_project(user_id, project_id, project_data) ==
    LET gate == get_project(project_id, user_id)
    IN  /\ IF gate = 200
           THEN projects' = {IF p.project_id # project_id THEN p
                             ELSE [p EXCEPT
                                     !.name = IF project_data.name # Absent
                                              THEN project_data.name ELSE @,
                                     !.description = IF project_data.description # Absent
                                                     THEN project_data.description ELSE @]
                             : p \in projects}
           ELSE UNCHANGED projects
        /\ last' = Response("update_project", user_id, project_id,
                            <<project_data.name, project_data.description>>, gate)
        /\ UNCHANGED <<users, documents, images, participant_project, sequences,
                       buckets, inflight>>

\* a legacy update that replaces both fields, a field left out becoming null
main_update_project_replace(user_id, project_id, project_data) ==
    LET gate == get_project(project_id, user_id)
    IN  /\ IF gate = 200
           THEN projects' = {IF p.project_id # project_id THEN p
                             ELSE [p EXCEPT !.name = project_data.name,
                                            !.description = project_data.description]
                             : p \in projects}
           ELSE UNCHANGED projects
        /\ last' = Response("main.update_project", user_id, project_id,
                            <<project_data.name, project_data.description>>, gate)
        /\ UNCHANGED <<users, documents, images, participant_project, sequences,
                       buckets, inflight>>

\* main/main.py update_project, the unversioned PUT /project/{id}/info: db.get
\* (404), owner or is_participant (else 403), then each field that is not None
main_update_project(user_id, project_id, project_data) ==
    LET db_project == ProjectById(project_id)
        status == IF project_id \notin ProjectIds THEN 404
                  ELSE IF user_id = db_project.owner_id \/ is_participant(user_id, project_id)
                  THEN 200 ELSE 403
    IN  /\ IF status = 200
           THEN projects' = {IF p.project_id # project_id THEN p
                             ELSE [p EXCEPT
                                     !.name = IF project_data.name # Absent
                                              THEN project_data.name ELSE @,
                                     !.description = IF project_data.description # Absent
                                                     THEN project_data.description ELSE @]
                             : p \in projects}
           ELSE UNCHANGED projects
        /\ last' = Response("main.update_project", user_id, project_id,
                            <<project_data.name, project_data.description>>, status)
        /\ UNCHANGED <<users, documents, images, participant_project, sequences,
                       buckets, inflight>>

\* endpoints/project.py read_project: GET /project/{id}/info
read_project(user_id, project_id) ==
    /\ last' = Response("get_project", user_id, project_id, <<>>,
                        get_project(project_id, user_id))
    /\ UNCHANGED <<tables, sequences, buckets, inflight>>

\* an invite that skips the already-a-participant test
invite_status_repeat(user_id, project_id, user_email) ==
    IF get_project(project_id, user_id) # 200 THEN get_project(project_id, user_id)
    ELSE IF UserById(ProjectById(project_id).owner_id).email # UserById(user_id).email THEN 403
    ELSE IF ~ \E u \in users : u.email = user_email THEN 404
    ELSE 200

\* an invite that skips the owner test
invite_status_any_member(user_id, project_id, user_email) ==
    IF get_project(project_id, user_id) # 200 THEN get_project(project_id, user_id)
    ELSE IF ~ \E u \in users : u.email = user_email THEN 404
    ELSE IF is_participant(UserByEmail(user_email).user_id, project_id) THEN 400
    ELSE 200

\* crud/project.py invite
invite_status(user_id, project_id, user_email) ==
    IF get_project(project_id, user_id) # 200 THEN get_project(project_id, user_id)
    ELSE IF UserById(ProjectById(project_id).owner_id).email # UserById(user_id).email THEN 403
    ELSE IF ~ \E u \in users : u.email = user_email THEN 404
    ELSE IF is_participant(UserByEmail(user_email).user_id, project_id) THEN 400
    ELSE 200

invite(user_id, project_id, user_email) ==
    LET status == invite_status(user_id, project_id, user_email)
    IN  /\ IF status = 200
           THEN participant_project' = participant_project \cup
                    {[project_id |-> project_id, user_id |-> UserByEmail(user_email).user_id]}
           ELSE UNCHANGED participant_project
        /\ last' = Response("invite", user_id, project_id, <<user_email>>, status)
        /\ UNCHANGED <<users, projects, documents, images, sequences, buckets, inflight>>

\* crud/project.py invite as two steps, so that requests can overlap: the
\* tests up to is_participant, then the INSERT and the commit.
invite_begin(req, user_id, project_id, user_email) ==
    LET status == invite_status(user_id, project_id, user_email)
    IN  /\ \A t \in inflight : t.req # req
        /\ IF status = 200
           THEN /\ inflight' = inflight \cup
                        {[req |-> req, user |-> user_id, project_id |-> project_id,
                          email |-> user_email,
                          user_id |-> UserByEmail(user_email).user_id, pc |-> "member"]}
                /\ last' = Response("invite.begin", user_id, project_id, <<user_email>>, 0)
           ELSE /\ UNCHANGED inflight
                /\ last' = Response("invite", user_id, project_id, <<user_email>>, status)
        /\ UNCHANGED <<tables, sequences, buckets>>

\* an INSERT into a table without the primary key: it succeeds for a pair that
\* is already there
invite_commit_no_key(t) ==
    /\ t.pc = "member"
    /\ participant_project' = participant_project \cup
           {[project_id |-> t.project_id, user_id |-> t.user_id]}
    /\ last' = Response("invite", t.user, t.project_id, <<t.email>>, 200)
    /\ inflight' = inflight \ {t}
    /\ UNCHANGED <<users, projects, documents, images, sequences, buckets>>

\* models/project.py participant_project: (project_id, user_id) is the primary
\* key, so the INSERT of a pair that another transaction committed meanwhile
\* raises IntegrityError, which nothing catches: 500, and nothing is stored.
invite_commit(t) ==
    /\ t.pc = "member"
    /\ IF is_participant(t.user_id, t.project_id)
       THEN /\ UNCHANGED participant_project
            /\ last' = Response("invite", t.user, t.project_id, <<t.email>>, 500)
       ELSE /\ participant_project' = participant_project \cup
                    {[project_id |-> t.project_id, user_id |-> t.user_id]}
            /\ last' = Response("invite", t.user, t.project_id, <<t.email>>, 200)
    /\ inflight' = inflight \ {t}
    /\ UNCHANGED <<users, projects, documents, images, sequences, buckets>>

\* the rows of a SELECT as a list; the model lists them by ascending id
RECURSIVE Rows(_)
Rows(ids) ==
    IF ids = {} THEN <<>>
    ELSE LET first == CHOOSE i \in ids : \A j \in ids : i <= j
         IN  <<first>> \o Rows(ids \ {first})

\* Python {project.project_id: project for project in ...}.values(): one entry
\* per key, in the order the keys first appear
RECURSIVE DictValues(_, _)
DictValues(items, keys) ==
    IF items = <<>> THEN <<>>
    ELSE IF Head(items) \in keys THEN DictValues(Tail(items), keys)
    ELSE <<Head(items)>> \o DictValues(Tail(items), keys \cup {Head(items)})

\* the two lists returned one after the other
user_projects_concatenated(owner_projects, participant_projects) ==
    owner_projects \o participant_projects

\* crud/project.py get_projects, user_projects
user_projects(owner_projects, participant_projects) ==
    DictValues(owner_projects \o participant_projects, {})

\* crud/project.py get_projects: the projects are identified by project_id
get_projects(user_id) ==
    LET owner_projects == Rows({p.project_id : p \in {q \in projects : q.owner_id = user_id}})
        participant_projects ==
            Rows({p.project_id : p \in {q \in projects : is_participant(user_id, q.project_id)}})
    IN  /\ last' = Response("get_projects", user_id, NULL,
                             user_projects(owner_projects, participant_projects), 200)
        /\ UNCHANGED <<tables, sequences, buckets, inflight>>

\* ------------------------------------------------------------ storage
\* db/buckets.py: every storage call either takes effect or fails; the adapter
\* swallows the exception and reports None/False.  `ok' is that outcome.
\* str(project_id) + "/" + file.filename
DocKey(project_id, filename) == <<ToString(project_id), "/", filename>>
LogoKey(project_id, filename) == <<ToString(project_id), "/">> \o filename

\* Python s3_key.split(".")[0]: the text before the first "."
RECURSIVE SplitFirst(_)
SplitFirst(key) ==
    IF key = <<>> \/ Head(key) = "." THEN <<>>
    ELSE <<Head(key)>> \o SplitFirst(Tail(key))

\* db/buckets.py upload_to_s3, the key it returns for doc_type == "image"
ResizedKey(key) == SplitFirst(key) \o <<"-resized.jpg">>

\* function update that also extends the domain (s3 put_object)
Put(bucket, key, content) ==
    [k \in DOMAIN bucket \cup {key} |-> IF k = key THEN content ELSE bucket[k]]
\* s3 delete_object: removing an absent key is not an error
Remove(bucket, key) == [k \in DOMAIN bucket \ {key} |-> bucket[k]]

\* ----------------------------------------------------------- documents
ProjectDocuments(project_id) == {d \in documents : d.project_id = project_id}

\* a loop whose duplicate test forgets the project_id filter
RECURSIVE upload_loop_any_project(_, _, _, _, _, _)
upload_loop_any_project(project_id, files, ok, i, rows, blobs) ==
    IF i > Len(files) THEN [status |-> 200, rows |-> rows, blobs |-> blobs, flushed |-> Len(rows)]
    ELSE LET file == files[i]
             existing_document ==
                 \/ \E d \in documents : d.document_name = file.filename
                 \/ \E j \in 1..Len(rows) : rows[j].document_name = file.filename
             s3_key == DocKey(project_id, file.filename)
         IN  IF existing_document
             THEN [status |-> 400, rows |-> <<>>, blobs |-> blobs, flushed |-> Len(rows)]
             ELSE IF ~ok[i]
             THEN [status |-> 500, rows |-> <<>>, blobs |-> blobs, flushed |-> Len(rows)]
             ELSE upload_loop_any_project(project_id, files, ok, i + 1,
                              Append(rows, [document_name |-> file.filename,
                                            s3_key |-> s3_key, project_id |-> project_id]),
                              Put(blobs, s3_key, file.content))

\* a loop whose failure keeps the rows flushed before it
RECURSIVE upload_loop_rows_kept(_, _, _, _, _, _)
upload_loop_rows_kept(project_id, files, ok, i, rows, blobs) ==
    IF i > Len(files) THEN [status |-> 200, rows |-> rows, blobs |-> blobs, flushed |-> Len(rows)]
    ELSE LET file == files[i]
             existing_document ==
                 \/ \E d \in ProjectDocuments(project_id) : d.document_name = file.filename
                 \/ \E j \in 1..Len(rows) : rows[j].document_name = file.filename
             s3_key == DocKey(project_id, file.filename)
         IN  IF existing_document
             THEN [status |-> 400, rows |-> rows, blobs |-> blobs, flushed |-> Len(rows)]
             ELSE IF ~ok[i]
             THEN [status |-> 500, rows |-> rows, blobs |-> blobs, flushed |-> Len(rows)]
             ELSE upload_loop_rows_kept(project_id, files, ok, i + 1,
                              Append(rows, [document_name |-> file.filename,
                                            s3_key |-> s3_key, project_id |-> project_id]),
                              Put(blobs, s3_key, file.content))

\* crud/project.py upload_documents, the loop over files inside one transaction.
\* rows: the Document objects added so far (flushed before the next SELECT);
\* blobs: the documents bucket after the uploads made so far.
RECURSIVE upload_loop(_, _, _, _, _, _)
upload_loop(project_id, files, ok, i, rows, blobs) ==
    IF i > Len(files) THEN [status |-> 200, rows |-> rows, blobs |-> blobs, flushed |-> Len(rows)]
    ELSE LET file == files[i]
             existing_document ==
                 \/ \E d \in ProjectDocuments(project_id) : d.document_name = file.filename
                 \/ \E j \in 1..Len(rows) : rows[j].document_name = file.filename
             s3_key == DocKey(project_id, file.filename)
         IN  IF existing_document
             THEN [status |-> 400, rows |-> <<>>, blobs |-> blobs, flushed |-> Len(rows)]
             ELSE IF ~ok[i]
             THEN [status |-> 500, rows |-> <<>>, blobs |-> blobs, flushed |-> Len(rows)]
             ELSE upload_loop(project_id, files, ok, i + 1,
                              Append(rows, [document_name |-> file.filename,
                                            s3_key |-> s3_key, project_id |-> project_id]),
                              Put(blobs, s3_key, file.content))

\* the rows of a committed batch with their primary keys
InsertedDocuments(rows) ==
    {[document_id |-> sequences.documents + j - 1, document_name |-> rows[j].document_name,
      s3_key |-> rows[j].s3_key, project_id |-> rows[j].project_id] : j \in 1..Len(rows)}

FileNames(files) == [j \in 1..Len(files) |-> files[j].filename]

\* crud/project.py upload_documents, one request run without interleaving
upload_documents(user_id, project_id, files, ok) ==
    LET gate == get_project(project_id, user_id)
        run  == upload_loop(project_id, files, ok, 1, <<>>, bucket_docs)
        status == IF gate # 200 THEN gate ELSE run.status
        \* the uploads made: all, up to the one that failed, or those before the
        \* file whose name was taken
        calls == IF run.status = 200 THEN Len(files)
                 ELSE IF run.status = 500 THEN run.flushed + 1
                 ELSE run.flushed
    IN  /\ IF gate = 200
           THEN /\ documents' = documents \cup InsertedDocuments(run.rows)
                /\ bucket_docs' = run.blobs
                /\ sequences' = [sequences EXCEPT !.documents = @ + run.flushed]
           ELSE UNCHANGED <<documents, bucket_docs, sequences>>
        /\ last' = ResponseS3("upload_documents", user_id, project_id, FileNames(files),
                          IF gate = 200 THEN [j \in 1..calls |-> ok[j]] ELSE <<>>, status)
        /\ UNCHANGED <<users, projects, images, participant_project,
                       bucket_logos, bucket_resize, inflight>>

\* crud/project.py get_documents with a requesting user
get_documents(user_id, project_id) ==
    /\ last' = Response("get_documents", user_id, project_id, <<>>,
                        get_project(project_id, user_id))
    /\ UNCHANGED <<tables, sequences, buckets, inflight>>

\* crud/document.py get_document: the status of the document gate
get_document(document_id, user_id) ==
    IF document_id \notin DocumentIds THEN 404
    ELSE LET project == ProjectById(DocumentById(document_id).project_id)
         IN  IF user_id = project.owner_id \/ is_participant(user_id, project.project_id)
             THEN 200 ELSE 403

\* crud/document.py update_document
update_document(user_id, document_id, content, ok) ==
    LET gate == get_document(document_id, user_id)
        status == IF gate # 200 THEN gate ELSE IF ~ok THEN 500 ELSE 200
    IN  /\ IF status = 200
           THEN bucket_docs' = Put(bucket_docs, DocumentById(document_id).s3_key, content)
           ELSE UNCHANGED bucket_docs
        /\ last' = ResponseS3("update_document", user_id, document_id, <<content>>,
                          IF gate = 200 THEN <<ok>> ELSE <<>>, status)
        /\ UNCHANGED <<tables, sequences, bucket_logos, bucket_resize, inflight>>

\* a delete that removes the row whatever the storage delete reported
delete_document_row_first(user_id, document_id, ok) ==
    LET gate == get_document(document_id, user_id)
        status == IF gate # 200 THEN gate ELSE IF ~ok THEN 500 ELSE 200
    IN  /\ IF gate = 200
           THEN /\ bucket_docs' = IF ok THEN Remove(bucket_docs, DocumentById(document_id).s3_key)
                                  ELSE bucket_docs
                /\ documents' = documents \ {DocumentById(document_id)}
           ELSE UNCHANGED <<bucket_docs, documents>>
        /\ last' = ResponseS3("delete_document", user_id, document_id, <<>>,
                          IF gate = 200 THEN <<ok>> ELSE <<>>, status)
        /\ UNCHANGED <<users, projects, images, participant_project, sequences,
                       bucket_logos, bucket_resize, inflight>>

\* crud/document.py delete_document
delete_document(user_id, document_id, ok) ==
    LET gate == get_document(document_id, user_id)
        status == IF gate # 200 THEN gate ELSE IF ~ok THEN 500 ELSE 200
    IN  /\ IF status = 200
           THEN /\ bucket_docs' = Remove(bucket_docs, DocumentById(document_id).s3_key)
                /\ documents' = documents \ {DocumentById(document_id)}
           ELSE UNCHANGED <<bucket_docs, documents>>
        /\ last' = ResponseS3("delete_document", user_id, document_id, <<>>,
                          IF gate = 200 THEN <<ok>> ELSE <<>>, status)
        /\ UNCHANGED <<users, projects, images, participant_project, sequences,
                       bucket_logos, bucket_resize, inflight>>

\* crud/document.py download_document; the download fails when the storage call
\* fails or the key holds no object
download_document(user_id, document_id, ok) ==
    LET gate == get_document(document_id, user_id)
        status == IF gate # 200 THEN gate
                  ELSE IF ~ok \/ DocumentById(document_id).s3_key \notin DOMAIN bucket_docs
                  THEN 500 ELSE 200
        body == IF status = 200 THEN <<bucket_docs[DocumentById(document_id).s3_key],
                                       DocumentById(document_id).document_name>>
                ELSE <<>>
    IN  /\ last' = ResponseS3("download_document", user_id, document_id, body,
                          IF gate = 200 THEN <<ok>> ELSE <<>>, status)
        /\ UNCHANGED <<tables, sequences, buckets, inflight>>

\* ---------------------------------------------------------------- logos
\* crud/project.py get_image: 404 when no Image row has that id (also for NULL)
get_image(image_id) == IF \E i \in images : i.image_id = image_id THEN 200 ELSE 404

\* crud/project.py download_logo: served from the resize bucket under Image.s3_key
download_logo(user_id, project_id, ok) ==
    LET gate == get_project(project_id, user_id)
        logo_id == ProjectById(project_id).logo_id
        status == IF gate # 200 THEN gate
                  ELSE IF get_image(logo_id) # 200 THEN 404
                  ELSE IF ~ok \/ ImageById(logo_id).s3_key \notin bucket_resize THEN 500
                  ELSE 200
    IN  /\ last' = ResponseS3("download_logo", user_id, project_id, <<>>,
                          IF status \in {200, 500} THEN <<ok>> ELSE <<>>, status)
        /\ UNCHANGED <<tables, sequences, buckets, inflight>>

\* a delete that is content with one of the two storage deletions
delete_logo_run_either(user_id, project_id, ok_logo, ok_resize, tbl, bkt) ==
    LET project == CHOOSE p \in tbl.projects : p.project_id = project_id
        logo    == CHOOSE i \in tbl.images : i.image_id = project.logo_id
        found   == \E i \in tbl.images : i.image_id = project.logo_id
        after_s3 == [logos  |-> IF ok_logo
                                THEN bkt.logos \ {LogoKey(project_id, logo.image_name)}
                                ELSE bkt.logos,
                     resize |-> IF ok_resize THEN bkt.resize \ {logo.s3_key}
                                ELSE bkt.resize]
    IN  IF ~found THEN [status |-> 404, tbl |-> tbl, bkt |-> bkt]
        ELSE IF ~(ok_logo \/ ok_resize) THEN [status |-> 500, tbl |-> tbl, bkt |-> after_s3]
        ELSE [status |-> 200,
              \* db.delete(logo): the row goes and the referencing project's logo_id is nulled
              tbl |-> [images   |-> tbl.images \ {logo},
                       projects |-> {IF p.logo_id = logo.image_id
                                     THEN [p EXCEPT !.logo_id = NULL] ELSE p
                                     : p \in tbl.projects}],
              bkt |-> after_s3]

\* crud/project.py delete_logo, as a function of the state it starts from:
\* ok_logo / ok_resize are the outcomes of the two delete_from_s3 calls.
\* Both calls are made before the outcomes are tested.
delete_logo_run(user_id, project_id, ok_logo, ok_resize, tbl, bkt) ==
    LET project == CHOOSE p \in tbl.projects : p.project_id = project_id
        logo    == CHOOSE i \in tbl.images : i.image_id = project.logo_id
        found   == \E i \in tbl.images : i.image_id = project.logo_id
        after_s3 == [logos  |-> IF ok_logo
                                THEN bkt.logos \ {LogoKey(project_id, logo.image_name)}
                                ELSE bkt.logos,
                     resize |-> IF ok_resize THEN bkt.resize \ {logo.s3_key}
                                ELSE bkt.resize]
    IN  IF ~found THEN [status |-> 404, tbl |-> tbl, bkt |-> bkt]
        ELSE IF ~(ok_logo /\ ok_resize) THEN [status |-> 500, tbl |-> tbl, bkt |-> after_s3]
        ELSE [status |-> 200,
              \* db.delete(logo): the row goes and the referencing project's logo_id is nulled
              tbl |-> [images   |-> tbl.images \ {logo},
                       projects |-> {IF p.logo_id = logo.image_id
                                     THEN [p EXCEPT !.logo_id = NULL] ELSE p
                                     : p \in tbl.projects}],
              bkt |-> after_s3]

LogoTables  == [images |-> images, projects |-> projects]
LogoBuckets == [logos |-> bucket_logos, resize |-> bucket_resize]

delete_logo(user_id, project_id, ok_logo, ok_resize) ==
    LET gate == get_project(project_id, user_id)
        run  == delete_logo_run(user_id, project_id, ok_logo, ok_resize,
                                LogoTables, LogoBuckets)
    IN  /\ IF gate = 200
           THEN /\ images' = run.tbl.images
                /\ projects' = run.tbl.projects
                /\ bucket_logos' = run.bkt.logos
                /\ bucket_resize' = run.bkt.resize
           ELSE UNCHANGED <<images, projects, bucket_logos, bucket_resize>>
        /\ last' = ResponseS3("delete_logo", user_id, project_id, <<>>,
                          IF gate = 200 /\ run.status # 404 THEN <<ok_logo, ok_resize>> ELSE <<>>,
                          IF gate # 200 THEN gate ELSE run.status)
        /\ UNCHANGED <<users, documents, participant_project, sequences,
                       bucket_docs, inflight>>

\* an upload_logo that stores the new file first and touches the old logo only
\* when that succeeded
upload_logo_upload_first(user_id, project_id, filename, ok_logo, ok_resize, ok_upload) ==
    LET gate == get_project(project_id, user_id)
        old  == delete_logo_run(user_id, project_id, ok_logo, ok_resize,
                                LogoTables, LogoBuckets)
        key  == LogoKey(project_id, filename)
        s3_key == ResizedKey(key)
        unique_violation == \E i \in old.tbl.images : i.s3_key = s3_key
        status == IF gate # 200 THEN gate
                  ELSE IF ~ok_upload THEN 500
                  ELSE IF unique_violation THEN 500
                  ELSE 200
        logo == [image_id |-> sequences.images, s3_key |-> s3_key, image_name |-> filename]
    IN  /\ IF gate # 200 \/ ~ok_upload
           THEN UNCHANGED <<images, projects, bucket_logos, bucket_resize, sequences>>
           ELSE /\ bucket_resize' = old.bkt.resize
                /\ bucket_logos' = old.bkt.logos \cup {key}
                /\ IF status = 200
                   THEN /\ images' = old.tbl.images \cup {logo}
                        /\ projects' = {IF p.project_id = project_id
                                        THEN [p EXCEPT !.logo_id = logo.image_id] ELSE p
                                        : p \in old.tbl.projects}
                   ELSE /\ images' = old.tbl.images
                        /\ projects' = old.tbl.projects
                /\ sequences' = [sequences EXCEPT !.images = @ + 1]
        /\ last' = ResponseS3("upload_logo", user_id, project_id, filename,
                          IF gate # 200 THEN <<>>
                          ELSE IF old.status = 404 THEN <<ok_upload>>
                          ELSE <<ok_logo, ok_resize, ok_upload>>, status)
        /\ UNCHANGED <<users, documents, participant_project, bucket_docs, inflight>>

\* crud/project.py upload_logo.  The old logo, when there is one, is deleted
\* through delete_logo and any HTTPException of that attempt is swallowed; then
\* the file is stored under "{project_id}/{filename}" and an Image row with the
\* derived resized key is inserted and becomes the project's logo.
upload_logo(user_id, project_id, filename, ok_logo, ok_resize, ok_upload) ==
    LET gate == get_project(project_id, user_id)
        old  == delete_logo_run(user_id, project_id, ok_logo, ok_resize,
                                LogoTables, LogoBuckets)
        key  == LogoKey(project_id, filename)
        s3_key == ResizedKey(key)
        \* images.s3_key is UNIQUE: the INSERT fails when a row already has the key
        unique_violation == \E i \in old.tbl.images : i.s3_key = s3_key
        status == IF gate # 200 THEN gate
                  ELSE IF ~ok_upload THEN 500
                  ELSE IF unique_violation THEN 500
                  ELSE 200
        logo == [image_id |-> sequences.images, s3_key |-> s3_key, image_name |-> filename]
    IN  /\ IF gate # 200
           THEN UNCHANGED <<images, projects, bucket_logos, bucket_resize, sequences>>
           ELSE /\ bucket_resize' = old.bkt.resize
                /\ bucket_logos' = IF ok_upload THEN old.bkt.logos \cup {key}
                                   ELSE old.bkt.logos
                /\ IF status = 200
                   THEN /\ images' = old.tbl.images \cup {logo}
                        /\ projects' = {IF p.project_id = project_id
                                        THEN [p EXCEPT !.logo_id = logo.image_id] ELSE p
                                        : p \in old.tbl.projects}
                   ELSE /\ images' = old.tbl.images
                        /\ projects' = old.tbl.projects
                /\ sequences' = IF ok_upload
                                THEN [sequences EXCEPT !.images = @ + 1] ELSE sequences
        /\ last' = ResponseS3("upload_logo", user_id, project_id, filename,
                          IF gate # 200 THEN <<>>
                          ELSE IF old.status = 404 THEN <<ok_upload>>
                          ELSE <<ok_logo, ok_resize, ok_upload>>, status)
        /\ UNCHANGED <<users, documents, participant_project, bucket_docs, inflight>>

\* The external image resizer: it puts the resized variant of an original of
\* the logo bucket into the resize bucket under the key the system derives.
resizer(key) ==
    /\ key \in bucket_logos
    /\ bucket_resize' = bucket_resize \cup {ResizedKey(key)}
    /\ last' = Response("resizer", NULL, NULL, key, 0)
    /\ UNCHANGED <<tables, sequences, bucket_docs, bucket_logos, inflight>>

\* ------------------------------------------------------- project deletion
\* Both after_delete listeners (crud/document.py delete_documents_from_s3,
\* crud/project.py delete_images_from_s3) declare the single parameter `target'.
ListenerParameters == 1
\* The mapper event after_delete calls each listener with mapper, connection
\* and target (the arguments the listener's own docstring lists).
AfterDeleteArguments == 3

\* models/project.py Project relationships: what db.delete(project) removes with
\* the project row.  documents: cascade "all, delete-orphan"; logo: cascade
\* "all"; participants: cascade "all", which carries the delete on to the User
\* rows of the participants; the association rows of a deleted project or user
\* go with it.
Participants(project_id) == {u \in users : is_participant(u.user_id, project_id)}

cascade_delete(project_id) ==
    LET project == ProjectById(project_id)
        gone    == {u.user_id : u \in Participants(project_id)}
    IN  /\ projects' = projects \ {project}
        /\ documents' = documents \ ProjectDocuments(project_id)
        /\ images' = {i \in images : i.image_id # project.logo_id}
        /\ users' = users \ Participants(project_id)
        /\ participant_project' = {r \in participant_project :
                                       r.project_id # project_id /\ r.user_id \notin gone}

\* projects.owner_id is a foreign key to users.user_id: the DELETE of a user
\* who still owns another project is refused (IntegrityError)
owner_id_violated(project_id) ==
    \E u \in Participants(project_id), p \in projects :
        p.project_id # project_id /\ p.owner_id = u.user_id

\* a dispatch whose listeners accept the arguments they are called with
after_delete_accepted == FALSE

\* Calling a function with more positional arguments than it declares raises
\* TypeError at the call, before any of its body runs.
after_delete_raises == AfterDeleteArguments # ListenerParameters

\* crud/project.py delete_project.  The DELETE statements are flushed when the
\* transaction block exits; the flush dispatches after_delete to the two
\* listeners, an exception raised there rolls the transaction back and the
\* request ends in an unhandled server error (500).  When the dispatch does not
\* raise, each listener call only creates a coroutine object that nothing
\* awaits, so no storage call is made.
delete_project_status(user_id, project_id) ==
    IF get_project(project_id, user_id) # 200 THEN get_project(project_id, user_id)
    ELSE IF user_id # ProjectById(project_id).owner_id THEN 403
    ELSE IF after_delete_raises THEN 500
    ELSE IF owner_id_violated(project_id) THEN 500
    ELSE 200

delete_project(user_id, project_id) ==
    LET status == delete_project_status(user_id, project_id)
    IN  /\ IF status = 200
           THEN cascade_delete(project_id)
           ELSE UNCHANGED <<users, projects, documents, images, participant_project>>
        /\ last' = Response("delete_project", user_id, project_id, <<>>, status)
        /\ UNCHANGED <<sequences, buckets, inflight>>

\* ------------------------------------------- upload_documents, interleaved
\* The same code as upload_documents for a one-file request, cut at its
\* suspension points: after the gate (get_project committed its transaction),
\* after the SELECT and the storage upload, and at the commit.  A transaction
\* reads only committed rows of other transactions.
upload_begin(req, user_id, project_id, file) ==
    /\ \A t \in inflight : t.req # req
    /\ get_project(project_id, user_id) = 200
    /\ inflight' = inflight \cup {[req |-> req, user |-> user_id, project_id |-> project_id,
                                   file |-> file, pc |-> "select"]}
    /\ last' = Response("upload_documents.begin", user_id, project_id, <<file.filename>>, 0)
    /\ UNCHANGED <<tables, sequences, buckets>>

upload_select(t, ok) ==
    LET existing_document ==
            \E d \in ProjectDocuments(t.project_id) : d.document_name = t.file.filename
        status == IF existing_document THEN 400 ELSE IF ~ok THEN 500 ELSE 0
    IN  /\ t.pc = "select"
        /\ IF status = 0
           THEN /\ bucket_docs' = Put(bucket_docs, DocKey(t.project_id, t.file.filename),
                                      t.file.content)
                /\ inflight' = (inflight \ {t}) \cup {[t EXCEPT !.pc = "commit"]}
                /\ last' = Response("upload_documents.select", t.user, t.project_id,
                                    <<t.file.filename>>, 0)
           ELSE /\ UNCHANGED bucket_docs
                /\ inflight' = inflight \ {t}
                /\ last' = ResponseS3("upload_documents", t.user, t.project_id,
                                      <<t.file.filename>>,
                                      IF existing_document THEN <<>> ELSE <<ok>>, status)
        /\ UNCHANGED <<tables, sequences, bucket_logos, bucket_resize>>

upload_commit(t) ==
    /\ t.pc = "commit"
    /\ documents' = documents \cup
           {[document_id |-> sequences.documents, document_name |-> t.file.filename,
             s3_key |-> DocKey(t.project_id, t.file.filename), project_id |-> t.project_id]}
    /\ sequences' = [sequences EXCEPT !.documents = @ + 1]
    /\ inflight' = inflight \ {t}
    /\ last' = ResponseS3("upload_documents", t.user, t.project_id, <<t.file.filename>>,
                          <<TRUE>>, 200)
    /\ UNCHANGED <<users, projects, images, participant_project, buckets>>

\* ------------------------------------------------ tokens and middleware
\* core/jwt.py
ALGORITHM == "HS256"
JWT_SECRET_KEY == "JWT_SECRET_KEY"
ACCESS_TOKEN_EXPIRE_MINUTES == 60

\* jose jwt.encode: header, claims and the signature of both under the key.
\* A token is the sequence of its three segments.
jwt_encode(claims, key, algorithm) == <<algorithm, claims, <<key, algorithm, claims>> >>

\* core/jwt.py create_access_token, called with no expires_delta
create_access_token(subject, now) ==
    jwt_encode([exp |-> now + ACCESS_TOKEN_EXPIRE_MINUTES, sub |-> subject],
               JWT_SECRET_KEY, ALGORITHM)

JWTError == [ok |-> FALSE, payload |-> NoPayload]

\* a decode that does not look at exp
jwt_decode_no_exp(token, key, algorithms, now) ==
    IF Len(token) # 3 THEN JWTError
    ELSE IF token[1] \notin algorithms THEN JWTError
    ELSE IF token[3] # <<key, token[1], token[2]>> THEN JWTError
    ELSE [ok |-> TRUE, payload |-> token[2]]

\* jose jwt.decode: JWTError for a token that has not three segments, names an
\* algorithm that is not allowed, carries a signature the key does not
\* produce, or has an exp that has passed (a payload without exp has none to
\* verify).  A payload is a function from the claims it carries.
jwt_decode(token, key, algorithms, now) ==
    IF Len(token) # 3 THEN JWTError
    ELSE IF token[1] \notin algorithms THEN JWTError
    ELSE IF token[3] # <<key, token[1], token[2]>> THEN JWTError
    ELSE IF "exp" \in DOMAIN token[2] /\ token[2].exp < now THEN JWTError
    ELSE [ok |-> TRUE, payload |-> token[2]]

\* A path is the sequence of its segments: "/api/v1/projects/" is
\* <<"api", "v1", "projects", "">>.  main.py app.add_middleware
protected_routes == { <<"api", "v1", "projects", "">>,
                      <<"api", "v1", "project", "">>,
                      <<"api", "v1", "document", "">> }

\* Python str.startswith for a route that ends in "/"
startswith(path, route) ==
    /\ Len(path) >= Len(route)
    /\ \A i \in 1..(Len(route) - 1) : path[i] = route[i]

\* middleware/auth.py JWTAuthMiddleware.dispatch, up to call_next.  The header
\* is the sequence authorization.split(" "); <<>> is a missing header.
dispatch(path, authorization, now) ==
    IF ~ \E route \in protected_routes : startswith(path, route)
    THEN [path |-> path, authorization |-> authorization, state |-> "unprotected",
          user |-> NoPayload, detail |-> ""]
    ELSE IF authorization = <<>> \/ ~(Len(authorization) >= 2 /\ authorization[1] = "Bearer")
    THEN [path |-> path, authorization |-> authorization, state |-> "rejected",
          user |-> NoPayload, detail |-> "Missing or invalid Authorization header"]
    ELSE LET decoded == jwt_decode(authorization[2], JWT_SECRET_KEY, {ALGORITHM}, now)
         IN  IF ~decoded.ok
             THEN [path |-> path, authorization |-> authorization, state |-> "rejected",
                   user |-> NoPayload, detail |-> "Invalid token"]
             ELSE [path |-> path, authorization |-> authorization,
                   state |-> "authenticated", user |-> decoded.payload, detail |-> ""]

\* One HTTP request: the middleware, then (call_next) the route handler
Http(path, authorization, call_next) ==
    LET r == dispatch(path, authorization, clock)
    IN  /\ request' = r
        /\ UNCHANGED clock
        /\ IF r.state = "rejected"
           THEN /\ last' = Response("dispatch", NULL, NULL, <<r.detail>>, 401)
                /\ UNCHANGED <<tables, sequences, buckets, inflight>>
           ELSE call_next

\* crud/user.py request_user: 401 for a payload that is falsy (the empty dict),
\* else user.get("sub"), which is None for a payload without sub
request_user(user) ==
    IF DOMAIN user = {} THEN [status |-> 401, sub |-> Absent]
    ELSE [status |-> 200, sub |-> IF "sub" \in DOMAIN user THEN user.sub ELSE Absent]

\* crud/user.py get_authenticated_user: the user whose email is the token's
\* subject, 404 when no row has it (User.email == None selects no row)
get_authenticated_user(payload) ==
    LET user_email == request_user(payload)
    IN  IF user_email.status = 401 THEN [status |-> 401, user_id |-> NULL]
        ELSE IF \E u \in users : u.email = user_email.sub
        THEN [status |-> 200, user_id |-> UserByEmail(user_email.sub).user_id]
        ELSE [status |-> 404, user_id |-> NULL]

UserNotAuthenticated ==
    /\ last' = Response("get_authenticated_user", NULL, NULL, <<"User not authenticated">>, 401)
    /\ UNCHANGED <<tables, sequences, buckets, inflight>>
UserNotFound ==
    /\ last' = Response("get_authenticated_user", NULL, NULL, <<"User not found">>, 404)
    /\ UNCHANGED <<tables, sequences, buckets, inflight>>

\* endpoints/projects.py write_project
write_project(payload, name, description) ==
    LET user_obj == get_authenticated_user(payload)
    IN  IF user_obj.status = 401 THEN UserNotAuthenticated
        ELSE IF user_obj.status = 404 THEN UserNotFound
        ELSE create_project(user_obj.user_id, name, description)

\* endpoints/project.py read_project
read_project_info(payload, project_id) ==
    LET user_obj == get_authenticated_user(payload)
    IN  IF user_obj.status = 401 THEN UserNotAuthenticated
        ELSE IF user_obj.status = 404 THEN UserNotFound
        ELSE read_project(user_obj.user_id, project_id)

\* a login that tells an unknown email from a wrong password
login_user_telling(username, password) ==
    LET found  == \E u \in users : u.email = username
        status == IF ~found THEN 404
                  ELSE IF ~verify_password(password, UserByEmail(username).hashed_password)
                  THEN 400 ELSE 200
        body   == IF status = 200
                  THEN <<"access_token", create_access_token(UserByEmail(username).email, clock)>>
                  ELSE IF status = 404 THEN <<"detail", "User not found">>
                  ELSE <<"detail", "Incorrect email or password">>
    IN  /\ last' = Response("login_user", NULL, NULL, <<username, password, body>>, status)
        /\ UNCHANGED <<tables, sequences, buckets, inflight>>

\* crud/user.py login_user
login_user(username, password) ==
    LET found  == \E u \in users : u.email = username
        status == IF ~found THEN 400
                  ELSE IF ~verify_password(password, UserByEmail(username).hashed_password)
                  THEN 400 ELSE 200
        body   == IF status = 200
                  THEN <<"access_token", create_access_token(UserByEmail(username).email, clock)>>
                  ELSE <<"detail", "Incorrect email or password">>
    IN  /\ last' = Response("login_user", NULL, NULL, <<username, password, body>>, status)
        /\ UNCHANGED <<tables, sequences, buckets, inflight>>

\* ------------------------------------------------------- specifications
\* the database after MaxUsers registrations
InitSeeded ==
    /\ users = {[user_id |-> i, email |-> EmailOf[i],
                 hashed_password |-> get_hashed_password("pw")] : i \in 1..MaxUsers}
    /\ projects = {}
    /\ documents = {}
    /\ images = {}
    /\ participant_project = {}
    /\ sequences = [users |-> MaxUsers + 1, projects |-> 1, documents |-> 1, images |-> 1]
    /\ bucket_docs = <<>>
    /\ bucket_logos = {}
    /\ bucket_resize = {}
    /\ inflight = {}
    /\ last = Response("none", NULL, NULL, <<>>, 0)
    /\ request = NoRequest
    /\ clock = 0

\* The requests below draw their inputs from the bounded sets.  The client
\* sends one request at a time: a request is handled when the response of the
\* one before has been delivered.  A storage outcome is drawn only for a
\* storage call the request makes: where the gate refuses the request, or
\* there is no logo to act on, one outcome stands for all.
Outcomes == BOOLEAN
Idle == last.op = "none"
NoLogo(u, p) == get_project(p, u) # 200 \/ get_image(ProjectById(p).logo_id) # 200

Deliver ==
    /\ ~Idle
    /\ last' = Response("none", NULL, NULL, <<>>, 0)
    /\ request' = NoRequest
    /\ UNCHANGED <<tables, buckets, sequences, inflight, clock>>
CreateUser ==
    /\ UNCHANGED env
    /\ \E e \in Emails, p \in Passwords, r \in Passwords :
           /\ Idle
           /\ sequences.users <= MaxUsers \/ (\E u \in users : u.email = e) \/ p # r
           /\ create_new_user(e, p, r)
CreateProject ==
    /\ UNCHANGED env
    /\ \E u \in UserIds, n \in ProjectNames, d \in Descriptions :
           Idle /\ sequences.projects <= MaxProjects /\ create_project(u, n, d)
ReadProject ==
    /\ UNCHANGED env
    /\ \E u \in UserIds, p \in 1..MaxProjects : Idle /\ read_project(u, p)
UpdateProject ==
    /\ UNCHANGED env
    /\ \E u \in UserIds, p \in 1..MaxProjects, n \in ProjectNames :
           Idle /\ update_project(u, p, [name |-> n, description |-> Absent])
\* PUT /project/{id}/info with any patch: each field supplied or left out
PatchProject ==
    /\ UNCHANGED env
    /\ \E u \in UserIds, p \in 1..MaxProjects, d \in Patches :
           Idle /\ update_project(u, p, d)
Invite ==
    /\ UNCHANGED env
    /\ \E u \in UserIds, p \in 1..MaxProjects, e \in Emails : Idle /\ invite(u, p, e)
DeleteProject ==
    /\ UNCHANGED env
    /\ \E u \in UserIds, p \in 1..MaxProjects : Idle /\ delete_project(u, p)
UploadDocuments ==
    /\ UNCHANGED env
    /\ \E u \in UserIds, p \in 1..MaxProjects, f \in Batches, ok \in [1..MaxBatch -> Outcomes] :
           /\ Idle
           /\ \A j \in 1..MaxBatch : (get_project(p, u) # 200 \/ j > Len(f)) => ok[j]
           /\ get_project(p, u) = 200 =>
                 sequences.documents + upload_loop(p, f, ok, 1, <<>>, bucket_docs).flushed - 1
                     <= MaxDocuments
           /\ upload_documents(u, p, f, ok)
GetDocuments ==
    /\ UNCHANGED env
    /\ \E u \in UserIds, p \in 1..MaxProjects : Idle /\ get_documents(u, p)
UpdateDocument ==
    /\ UNCHANGED env
    /\ \E u \in UserIds, d \in 1..MaxDocuments, c \in Contents, ok \in Outcomes :
           Idle /\ (get_document(d, u) # 200 => ok) /\ update_document(u, d, c, ok)
DeleteDocument ==
    /\ UNCHANGED env
    /\ \E u \in UserIds, d \in 1..MaxDocuments, ok \in Outcomes :
           Idle /\ (get_document(d, u) # 200 => ok) /\ delete_document(u, d, ok)
DownloadDocument ==
    /\ UNCHANGED env
    /\ \E u \in UserIds, d \in 1..MaxDocuments, ok \in Outcomes :
           Idle /\ (get_document(d, u) # 200 => ok) /\ download_document(u, d, ok)
DownloadLogo ==
    /\ UNCHANGED env
    /\ \E u \in UserIds, p \in 1..MaxProjects, ok \in Outcomes :
           Idle /\ (NoLogo(u, p) => ok) /\ download_logo(u, p, ok)
DeleteLogo ==
    /\ UNCHANGED env
    /\ \E u \in UserIds, p \in 1..MaxProjects, ok1 \in Outcomes, ok2 \in Outcomes :
           Idle /\ (NoLogo(u, p) => (ok1 /\ ok2)) /\ delete_logo(u, p, ok1, ok2)
UploadLogo ==
    /\ UNCHANGED env
    /\ \E u \in UserIds, p \in 1..MaxProjects, n \in LogoNames,
          ok1 \in Outcomes, ok2 \in Outcomes, ok3 \in Outcomes :
           /\ Idle
           /\ NoLogo(u, p) => (ok1 /\ ok2)
           /\ get_project(p, u) # 200 => ok3
           /\ (get_project(p, u) = 200 /\ ok3) => sequences.images <= MaxImages
           /\ upload_logo(u, p, n, ok1, ok2, ok3)
Resizer ==
    /\ UNCHANGED env
    /\ \E k \in bucket_logos : Idle /\ resizer(k)
\* the steps of concurrent requests interleave: no request waits for another
UploadBegin ==
    /\ UNCHANGED env
    /\ \E r \in 1..MaxInflight, u \in UserIds, p \in 1..MaxProjects, f \in Files :
           /\ sequences.documents + Cardinality(inflight) <= MaxDocuments
           /\ upload_begin(r, u, p, f)
UploadSelect ==
    /\ UNCHANGED env
    /\ \E t \in inflight, ok \in Outcomes : upload_select(t, ok)
UploadCommit ==
    /\ UNCHANGED env
    /\ \E t \in inflight : upload_commit(t)
\* -------------------------------------------- requests through the middleware
Times == {k * ACCESS_TOKEN_EXPIRE_MINUTES + d : k \in 0..MaxLifetimes, d \in 0..1}
\* time passes between requests
Tick ==
    /\ Idle
    /\ \E t \in Times : t > clock /\ clock' = t
    /\ UNCHANGED <<tables, sequences, buckets, inflight, last, request>>

\* The tokens a client can hold: those login has issued to a registered user up
\* to now, and what can be made of them without the key: a token signed with
\* another key, an issued token with its exp moved, and text that is no token.
IssuedTokens == {create_access_token(u.email, t) : u \in users, t \in {x \in Times : x <= clock}}
OtherKeyTokens ==
    {jwt_encode([exp |-> clock + ACCESS_TOKEN_EXPIRE_MINUTES, sub |-> u.email],
                "another key", ALGORITHM) : u \in users}
TamperedTokens ==
    {<<t[1], [t[2] EXCEPT !.exp = @ + ACCESS_TOKEN_EXPIRE_MINUTES], t[3]>> : t \in IssuedTokens}
MalformedTokens == { <<>>, <<"garbage">> }
Tokens == IssuedTokens \cup OtherKeyTokens \cup TamperedTokens \cup MalformedTokens
Headers == { <<>>, <<"Bearer">> } \cup {<<"Bearer", t>> : t \in Tokens}
               \cup {<<"Basic", t>> : t \in IssuedTokens}

AuthPath     == <<"api", "v1", "auth">>
LoginPath    == <<"api", "v1", "login">>
ProjectsPath == <<"api", "v1", "projects", "">>
ProjectInfoPath(project_id) == <<"api", "v1", "project", ToString(project_id), "info">>

HttpCreateUser ==
    /\ Idle
    /\ \E h \in {<<>>, <<"Bearer", <<"garbage">> >>}, e \in Emails, p \in Passwords, r \in Passwords :
        /\ sequences.users <= MaxUsers \/ (\E u \in users : u.email = e) \/ p # r
        /\ Http(AuthPath, h, create_new_user(e, p, r))
HttpLogin ==
    /\ Idle
    /\ \E h \in {<<>>, <<"Bearer", <<"garbage">> >>}, e \in Emails, p \in Passwords :
        Http(LoginPath, h, login_user(e, p))
HttpWriteProject ==
    /\ Idle
    /\ sequences.projects <= MaxProjects
    /\ \E h \in Headers, n \in ProjectNames, d \in Descriptions :
        Http(ProjectsPath, h, write_project(dispatch(ProjectsPath, h, clock).user, n, d))
HttpReadProject ==
    /\ Idle
    /\ \E h \in Headers, p \in 1..MaxProjects :
        Http(ProjectInfoPath(p), h,
             read_project_info(dispatch(ProjectInfoPath(p), h, clock).user, p))

\* registration, login and the middleware in front of the project routes
NextAuth == HttpCreateUser \/ HttpLogin \/ HttpWriteProject \/ HttpReadProject \/ Tick \/ Deliver
SpecAuth == Init /\ [][NextAuth]_vars

RegisterBegin ==
    /\ UNCHANGED env
    /\ \E r \in 1..MaxInflight, e \in Emails, p \in Passwords, q \in Passwords :
           /\ sequences.users + Cardinality(inflight) <= MaxUsers
                  \/ (\E u \in users : u.email = e) \/ p # q
           /\ register_begin(r, e, p, q)
RegisterCommit ==
    /\ UNCHANGED env
    /\ \E t \in inflight : register_commit(t)

\* registrations that overlap, and logins
NextRegister == RegisterBegin \/ RegisterCommit \/ HttpLogin \/ Deliver
SpecRegister == Init /\ [][NextRegister]_vars

\* accounts, projects and membership
Next == CreateUser \/ CreateProject \/ ReadProject \/ Invite \/ DeleteProject \/ Deliver
Spec == Init /\ [][Next]_vars

\* projects and membership among registered users
NextInvite == CreateProject \/ ReadProject \/ Invite \/ DeleteProject \/ Deliver
SpecInvite == InitSeeded /\ [][NextInvite]_vars

\* projects with documents, membership and project updates
NextUpdate == CreateProject \/ Invite \/ PatchProject \/ UploadDocuments \/ Deliver
SpecUpdate == InitSeeded /\ [][NextUpdate]_vars

\* projects and their documents
NextDocs ==
    \/ CreateProject \/ Invite \/ DeleteProject
    \/ UploadDocuments \/ GetDocuments \/ UpdateDocument \/ DeleteDocument \/ DownloadDocument
    \/ Deliver
SpecDocs == InitSeeded /\ [][NextDocs]_vars

\* projects and their logo
NextLogo ==
    \/ CreateProject \/ Invite \/ DeleteProject
    \/ UploadLogo \/ DownloadLogo \/ DeleteLogo \/ Resizer
    \/ Deliver
SpecLogo == InitSeeded /\ [][NextLogo]_vars

\* every operation behind the authorization gate
NextGate ==
    \/ CreateProject \/ Invite \/ ReadProject \/ UpdateProject \/ DeleteProject
    \/ UploadDocuments \/ GetDocuments \/ UpdateDocument \/ DeleteDocument \/ DownloadDocument
    \/ UploadLogo \/ DownloadLogo \/ DeleteLogo
    \/ Deliver
SpecGate == InitSeeded /\ [][NextGate]_vars

\* concurrent upload_documents requests
NextConc == CreateProject \/ UploadBegin \/ UploadSelect \/ UploadCommit \/ Deliver
SpecConc == InitSeeded /\ [][NextConc]_vars

\* a logo is uploaded, and uploaded again under the same or another file name
ReplaceLogo ==
    /\ UNCHANGED env
    /\ Idle
    /\ \E u \in UserIds, p \in 1..MaxProjects, n \in NewLogoNames,
          ok1 \in Outcomes, ok2 \in Outcomes, ok3 \in Outcomes :
           /\ NoLogo(u, p) => (ok1 /\ ok2)
           /\ get_project(p, u) # 200 => ok3
           /\ (get_project(p, u) = 200 /\ ok3) =>
                  sequences.images <= MaxImages + MaxReplacements
           /\ upload_logo(u, p, n, ok1, ok2, ok3)
NextRelogo == CreateProject \/ ReplaceLogo \/ DeleteLogo \/ Deliver
SpecRelogo == InitSeeded /\ [][NextRelogo]_vars

\* uploads of files that differ in content, overlapping, and downloads
UploadVersion ==
    /\ UNCHANGED env
    /\ \E r \in 1..MaxInflight, u \in UserIds, p \in 1..MaxProjects, f \in Versions :
           /\ sequences.documents + Cardinality(inflight) <= MaxDocuments
           /\ upload_begin(r, u, p, f)
NextVersions ==
    \/ CreateProject \/ Invite
    \/ UploadVersion \/ UploadSelect \/ UploadCommit \/ DownloadDocument
    \/ Deliver
SpecVersions == InitSeeded /\ [][NextVersions]_vars

GetProjects ==
    /\ UNCHANGED env
    /\ Idle
    /\ \E u \in UserIds : get_projects(u)
\* projects, invitations and the list of a user's projects
NextList == CreateProject \/ Invite \/ GetProjects \/ Deliver
SpecList == InitSeeded /\ [][NextList]_vars

\* projects created under either of two names and descriptions
NameProject ==
    /\ UNCHANGED env
    /\ Idle
    /\ sequences.projects <= MaxProjects
    /\ \E u \in UserIds, n \in PatchNames, d \in PatchDescriptions : create_project(u, n, d)
NextCreate == NameProject \/ Invite \/ UploadDocuments \/ UploadLogo \/ Deliver
SpecCreate == InitSeeded /\ [][NextCreate]_vars

\* uploads of batches of up to two files
UploadBatch ==
    /\ UNCHANGED env
    /\ Idle
    /\ \E u \in UserIds, p \in 1..MaxProjects, f \in FileBatches,
          ok \in [1..(MaxBatch + 1) -> Outcomes] :
           LET run == upload_loop(p, f, ok, 1, <<>>, bucket_docs)
               calls == IF run.status = 200 THEN Len(f)
                        ELSE IF run.status = 500 THEN run.flushed + 1 ELSE run.flushed
           IN  /\ \A j \in 1..(MaxBatch + 1) : (get_project(p, u) # 200 \/ j > calls) => ok[j]
               /\ get_project(p, u) = 200 =>
                      sequences.documents + run.flushed - 1 <= MaxDocuments
               /\ upload_documents(u, p, f, ok)
NextBatch == CreateProject \/ Invite \/ UploadBatch \/ Deliver
SpecBatch == InitSeeded /\ [][NextBatch]_vars

\* documents whose content is replaced, with two contents to tell apart
ReviseDocument ==
    /\ UNCHANGED env
    /\ Idle
    /\ \E u \in UserIds, d \in 1..MaxDocuments, c \in Contents \cup {"c2"}, ok \in Outcomes :
           (get_document(d, u) # 200 => ok) /\ update_document(u, d, c, ok)
NextRevise ==
    \/ CreateProject \/ Invite
    \/ UploadDocuments \/ ReviseDocument \/ DeleteDocument \/ DownloadDocument
    \/ Deliver
SpecRevise == InitSeeded /\ [][NextRevise]_vars

\* the same, with upload requests that overlap
NextReviseConc ==
    \/ CreateProject
    \/ UploadBegin \/ UploadSelect \/ UploadCommit
    \/ ReviseDocument \/ DownloadDocument
    \/ Deliver
SpecReviseConc == InitSeeded /\ [][NextReviseConc]_vars

\* the two surfaces' project update, with any patch
MainPatchProject ==
    /\ UNCHANGED env
    /\ Idle
    /\ \E u \in UserIds, p \in 1..MaxProjects, d \in Patches : main_update_project(u, p, d)
NextSurfaces == CreateProject \/ Invite \/ PatchProject \/ MainPatchProject \/ Deliver
SpecSurfaces == InitSeeded /\ [][NextSurfaces]_vars

\* The tokens a holder of the secret key can sign: any payload, with or
\* without exp and sub, the subject any email.
KeyHolderHeaders ==
    LET exp == clock + ACCESS_TOKEN_EXPIRE_MINUTES
        claims == {[claim \in {} |-> NULL], [exp |-> exp]}
                      \cup {[sub |-> e] : e \in Emails}
                      \cup {[exp |-> exp, sub |-> e] : e \in Emails}
    IN  {<<"Bearer", jwt_encode(c, JWT_SECRET_KEY, ALGORITHM)>> : c \in claims}
KeyHolderWriteProject ==
    /\ Idle
    /\ sequences.projects <= MaxProjects
    /\ \E h \in KeyHolderHeaders, n \in ProjectNames, d \in Descriptions :
        Http(ProjectsPath, h, write_project(dispatch(ProjectsPath, h, clock).user, n, d))
KeyHolderReadProject ==
    /\ Idle
    /\ \E h \in KeyHolderHeaders, p \in 1..MaxProjects :
        Http(ProjectInfoPath(p), h,
             read_project_info(dispatch(ProjectInfoPath(p), h, clock).user, p))
NextResolver ==
    \/ HttpCreateUser \/ KeyHolderWriteProject \/ KeyHolderReadProject \/ Tick \/ Deliver
SpecResolver == Init /\ [][NextResolver]_vars


\* invitations that overlap
InviteBegin ==
    /\ UNCHANGED env
    /\ \E r \in 1..MaxInflight, u \in UserIds, p \in 1..MaxProjects, e \in Emails :
           invite_begin(r, u, p, e)
InviteCommit ==
    /\ UNCHANGED env
    /\ \E t \in inflight : invite_commit(t)
NextInviteConc == CreateProject \/ InviteBegin \/ InviteCommit \/ ReadProject \/ Deliver
SpecInviteConc == InitSeeded /\ [][NextInviteConc]_vars

\* ============================================================ properties
Owner(pid)          == (CHOOSE p \in projects : p.project_id = pid).owner_id
Membership(uid, pid) == [project_id |-> pid, user_id |-> uid]
Member(uid, pid)    == Owner(pid) = uid \/ Membership(uid, pid) \in participant_project
EmailUser(e)        == (CHOOSE u \in users : u.email = e).user_id
EmailKnown(e)       == \E u \in users : u.email = e

ProjectScopedOps == {"get_project", "update_project", "get_documents", "upload_documents",
                     "download_logo", "upload_logo", "delete_logo"}
DocumentScopedOps == {"update_document", "delete_document", "download_document"}
DocProject(did) == (CHOOSE d \in documents : d.document_id = did).project_id

\* C1: a project-scoped request for a missing project ends in 404; a project-
\* or document-scoped request by a user who is neither owner nor participant
\* ends in 403 and changes no row and no blob; get-project by the owner or a
\* participant (so also by an invited user) ends in 200.
GateStep ==
    /\ last'.op \in ProjectScopedOps =>
         /\ last'.id \notin ProjectIds =>
                last'.status = 404 /\ UNCHANGED <<tables, buckets>>
         /\ (last'.id \in ProjectIds /\ ~Member(last'.user, last'.id)) =>
                last'.status = 403 /\ UNCHANGED <<tables, buckets>>
    /\ last'.op \in DocumentScopedOps =>
         /\ last'.id \notin DocumentIds =>
                last'.status = 404 /\ UNCHANGED <<tables, buckets>>
         /\ (last'.id \in DocumentIds /\ ~Member(last'.user, DocProject(last'.id))) =>
                last'.status = 403 /\ UNCHANGED <<tables, buckets>>
    /\ (last'.op = "get_project" /\ last'.id \in ProjectIds /\ Member(last'.user, last'.id)) =>
         last'.status = 200
AuthorizationGate == [][GateStep]_vars

\* a user outside the project was refused the deletion of one of its documents
AuthorizationGateWitness ==
    /\ last.op = "delete_document" /\ last.status = 403
    /\ last.id \in DocumentIds
    /\ ~Member(last.user, DocProject(last.id))
    /\ \E p \in projects : Membership(last.user, p.project_id) \in participant_project

\* C2: delete_project by a participant who is not the owner ends in 403 and
\* keeps the project; by the owner it ends in 200 and the project is gone (its
\* id is never issued again, so every later get-project ends in 404); on a
\* missing id it ends in 404.
OwnerOnlyDeleteStep ==
    last'.op = "delete_project" =>
        IF last'.id \notin ProjectIds THEN last'.status = 404
        ELSE IF Owner(last'.id) = last'.user
             THEN last'.status = 200 /\ last'.id \notin {p.project_id : p \in projects'}
        ELSE IF Membership(last'.user, last'.id) \in participant_project
             THEN last'.status = 403 /\ UNCHANGED tables
        ELSE TRUE
OwnerOnlyDelete == [][OwnerOnlyDeleteStep]_vars

\* C5: an invite by the owner naming an existing user ends in 200 and adds the
\* membership row when the user is not yet a participant, and ends in 400 and
\* leaves the membership relation unchanged when the user already is one.
InviteTwiceStep ==
    (/\ last'.op = "invite"
     /\ last'.id \in ProjectIds
     /\ Owner(last'.id) = last'.user
     /\ EmailKnown(last'.arg[1])) =>
        LET row == Membership(EmailUser(last'.arg[1]), last'.id)
        IN  IF row \in participant_project
            THEN last'.status = 400 /\ participant_project' = participant_project
            ELSE last'.status = 200 /\ participant_project' = participant_project \cup {row}
InviteIdempotencyBoundary == [][InviteTwiceStep]_vars

\* the second invite of the same user to the same project was refused
InviteIdempotencyWitness ==
    /\ last.op = "invite" /\ last.status = 400
    /\ EmailKnown(last.arg[1])
    /\ Membership(EmailUser(last.arg[1]), last.id) \in participant_project

\* C6: membership rows are added only by an invite of the project's owner, one
\* row for the invited user; an invite by a participant who is not the owner
\* ends in 403 and an invite by the owner naming an unknown email ends in 404,
\* both leaving the membership relation unchanged.
InviteOwnerOnlyStep ==
    /\ (participant_project' \ participant_project # {}) =>
         /\ last'.op = "invite" /\ last'.id \in ProjectIds
         /\ Owner(last'.id) = last'.user
         /\ EmailKnown(last'.arg[1])
         /\ participant_project' =
                participant_project \cup {Membership(EmailUser(last'.arg[1]), last'.id)}
    /\ (/\ last'.op = "invite" /\ last'.id \in ProjectIds
        /\ Owner(last'.id) # last'.user
        /\ Membership(last'.user, last'.id) \in participant_project) =>
         last'.status = 403 /\ participant_project' = participant_project
    /\ (/\ last'.op = "invite" /\ last'.id \in ProjectIds
        /\ Owner(last'.id) = last'.user
        /\ ~EmailKnown(last'.arg[1])) =>
         last'.status = 404 /\ participant_project' = participant_project
InviteOwnerOnly == [][InviteOwnerOnlyStep]_vars

\* a participant who is not the owner tried to invite and was refused
InviteOwnerOnlyWitness ==
    /\ last.op = "invite" /\ last.status = 403
    /\ last.id \in ProjectIds /\ Owner(last.id) # last.user
    /\ Membership(last.user, last.id) \in participant_project
\* C3: a one-file upload by an owner or participant ends in 400 and adds no
\* Document row when the project already has a document of that name; when it
\* has none (whatever the other projects hold) the upload ends in 200 and adds
\* exactly the row of that name, provided the storage upload succeeds.
UploadNameStep ==
    (/\ last'.op = "upload_documents" /\ Len(last'.arg) = 1
     /\ last'.id \in ProjectIds /\ Member(last'.user, last'.id)) =>
        LET n == last'.arg[1]
            same == {d \in documents : d.project_id = last'.id /\ d.document_name = n}
        IN  IF same # {} THEN last'.status = 400 /\ documents' = documents
            ELSE IF last'.s3 = <<TRUE>>
            THEN /\ last'.status = 200
                 /\ \E d \in documents' \ documents :
                        /\ d.document_name = n /\ d.project_id = last'.id
                        /\ documents' = documents \cup {d}
            ELSE last'.status = 500 /\ documents' = documents
DocumentNameSequential == [][UploadNameStep]_vars

\* the name was uploaded to two projects, and its second upload to one of them
\* was refused
DocumentNameSequentialWitness ==
    /\ last.op = "upload_documents" /\ last.status = 400 /\ Len(last.arg) = 1
    /\ \E d \in documents : d.project_id = last.id /\ d.document_name = last.arg[1]
    /\ \E d \in documents : d.project_id # last.id /\ d.document_name = last.arg[1]

\* C4: no two Document rows of one project have the same document_name.
DocumentNameUnique ==
    \A d \in documents, e \in documents :
        (d.project_id = e.project_id /\ d.document_name = e.document_name) => d = e

\* C7: delete_logo by a participant who is not the owner ends in 403 and
\* leaves the Image row, the project's logo_id and both logo blobs unchanged.
LogoDeleteStep ==
    (/\ last'.op = "delete_logo" /\ last'.id \in ProjectIds
     /\ Owner(last'.id) # last'.user
     /\ Membership(last'.user, last'.id) \in participant_project) =>
        /\ last'.status = 403
        /\ UNCHANGED <<images, projects, bucket_logos, bucket_resize>>
LogoDeleteOwnerOnly == [][LogoDeleteStep]_vars

OwnerDeletes == /\ last'.op = "delete_project" /\ last'.id \in ProjectIds
                /\ Owner(last'.id) = last'.user
LogoOf(pid) == CHOOSE i \in images :
                 i.image_id = (CHOOSE p \in projects : p.project_id = pid).logo_id
HasLogo(pid) == \E i \in images :
                 i.image_id = (CHOOSE p \in projects : p.project_id = pid).logo_id

\* C8: after the owner's delete_project no Document row of the project and
\* no Image row of its former logo remains.
CascadeRowsStep ==
    OwnerDeletes =>
        /\ \A d \in documents' : d.project_id # last'.id
        /\ HasLogo(last'.id) => LogoOf(last'.id) \notin images'
CascadeDocumentBlobsStep ==
    OwnerDeletes =>
        \A d \in documents : d.project_id = last'.id => d.s3_key \notin DOMAIN bucket_docs'
CascadeDocumentBlobs == [][CascadeDocumentBlobsStep]_vars

\* C10: after the owner's delete_project of a project with a logo, neither the
\* original ("{project_id}/{image_name}" in the logo bucket) nor the resized
\* variant (Image.s3_key in the resize bucket) remains.
CascadeLogoBlobsStep ==
    (OwnerDeletes /\ HasLogo(last'.id)) =>
        /\ LogoKey(last'.id, LogoOf(last'.id).image_name) \notin bucket_logos'
        /\ LogoOf(last'.id).s3_key \notin bucket_resize'
CascadeLogoBlobs == [][CascadeLogoBlobsStep]_vars

\* C11: update_project by the owner or a participant sets name and description
\* to the supplied values, keeps a field the patch leaves out, and changes
\* nothing else: the project's id, owner and logo, the other projects, the
\* documents and the membership relation.
PartialUpdateStep ==
    (/\ last'.op = "update_project"
     /\ last'.id \in ProjectIds /\ Member(last'.user, last'.id)) =>
        LET old == CHOOSE p \in projects : p.project_id = last'.id
            new == [old EXCEPT
                      !.name = IF last'.arg[1] # Absent THEN last'.arg[1] ELSE @,
                      !.description = IF last'.arg[2] # Absent THEN last'.arg[2] ELSE @]
        IN  /\ last'.status = 200
            /\ projects' = (projects \ {old}) \cup {new}
            /\ UNCHANGED <<users, documents, images, participant_project, buckets>>
PartialUpdate == [][PartialUpdateStep]_vars

\* a participant renamed a project that holds a document and whose description
\* an earlier patch had set: the patch carried a name only and the description
\* is still there
PartialUpdateWitness ==
    /\ last.op = "update_project" /\ last.status = 200
    /\ last.arg = <<"Q", Absent>>
    /\ last.id \in ProjectIds /\ Owner(last.id) # last.user
    /\ \E p \in projects : p.project_id = last.id /\ p.name = "Q" /\ p.description = "E"
    /\ \E d \in documents : d.project_id = last.id

\* the header carries "Bearer " and a token of three segments, signed
\* with the secret key under HS256, whose exp has not passed
Protected(path) ==
    \E route \in {<<"api", "v1", "projects">>, <<"api", "v1", "project">>,
                  <<"api", "v1", "document">>} :
        Len(path) > 3 /\ SubSeq(path, 1, 3) = route
AcceptableHeader(h, now) ==
    /\ Len(h) >= 2 /\ h[1] = "Bearer"
    /\ Len(h[2]) = 3
    /\ h[2][1] = "HS256"
    /\ h[2][3] = <<"JWT_SECRET_KEY", "HS256", h[2][2]>>
    /\ h[2][2].exp >= now
HandlerOps == {"create_project", "get_project", "create_new_user", "login_user",
               "get_authenticated_user"}

\* C12: a request on a protected path is authenticated or rejected, and it is
\* authenticated exactly when its header is acceptable; a rejected request ends
\* in 401 and changes no row and no blob; a handler of a protected route runs
\* only for an authenticated request; a request on an unprotected path reaches
\* its handler whatever its header.
MiddlewareGateStep ==
    (last'.op # "none" /\ request'.state # "none") =>
        /\ Protected(request'.path) =>
             /\ request'.state \in {"authenticated", "rejected"}
             /\ request'.state = "authenticated"
                    <=> AcceptableHeader(request'.authorization, clock)
        /\ request'.state = "rejected" =>
             /\ last'.op = "dispatch" /\ last'.status = 401
             /\ UNCHANGED <<tables, buckets, sequences>>
        /\ (last'.op \in HandlerOps /\ Protected(request'.path)) =>
             request'.state = "authenticated"
        /\ ~Protected(request'.path) =>
             request'.state = "unprotected" /\ last'.op \in {"create_new_user", "login_user"}
MiddlewareGate == [][MiddlewareGateStep]_vars

\* a token that login issued was presented after its exp and was rejected
MiddlewareGateWitness ==
    /\ request.state = "rejected" /\ last.status = 401
    /\ Len(request.authorization) = 2 /\ request.authorization[1] = "Bearer"
    /\ request.authorization[2] \in IssuedTokens
    /\ request.authorization[2][2].exp < clock

\* the row a registration stored for email e with password p
Registered(rows, e, p) ==
    \E u \in rows : u.email = e /\ u.hashed_password = <<"bcrypt", p>>
LoginBody == last'.arg[3]

\* C13: a successful register(e, p, p) stores a row for e with the hash of p,
\* and no later step changes or removes it; login(e, p) on such a row ends in
\* 200 with an access token whose subject is e and which the middleware
\* accepts at that moment; login(e, p') with another password (or an unknown
\* e) ends in 400; and a request that carries an issued, unexpired token is
\* authenticated and runs its handler as the user whose email is the subject.
RoundTripStep ==
    /\ users \subseteq users'
    /\ (last'.op = "create_new_user" /\ last'.status = 200) =>
          /\ last'.arg[2] = last'.arg[3]
          /\ ~ \E u \in users : u.email = last'.arg[1]
          /\ Registered(users', last'.arg[1], last'.arg[2])
    /\ last'.op = "login_user" =>
          /\ Registered(users, last'.arg[1], last'.arg[2]) =>
                /\ last'.status = 200
                /\ LoginBody[1] = "access_token"
                /\ LoginBody[2][2].sub = last'.arg[1]
                /\ AcceptableHeader(<<"Bearer", LoginBody[2]>>, clock)
          /\ ~Registered(users, last'.arg[1], last'.arg[2]) => last'.status = 400
    /\ ( /\ last'.op # "none" /\ Protected(request'.path)
         /\ Len(request'.authorization) = 2
         /\ request'.authorization[1] = "Bearer"
         /\ request'.authorization[2] \in IssuedTokens
         /\ request'.authorization[2][2].exp >= clock ) =>
          /\ request'.state = "authenticated"
          /\ last'.op \in {"create_project", "get_project"}
          /\ \E u \in users : /\ u.email = request'.authorization[2][2].sub
                              /\ last'.user = u.user_id
RoundTrip == [][RoundTripStep]_vars

\* login(e, "qw") just succeeded for a user registered with "qw" while another
\* user is registered with "pw"
RoundTripWitness ==
    /\ last.op = "login_user" /\ last.status = 200
    /\ last.arg[2] = "qw"
    /\ Registered(users, last.arg[1], "qw")
    /\ \E u \in users : u.email # last.arg[1] /\ u.hashed_password = <<"bcrypt", "pw">>

UniqueEmails(rows) == \A u \in rows, v \in rows : u.email = v.email => u = v

\* C14: no two user rows ever share an email; a registration that finds its
\* email registered ends in 400, one whose password differs from
\* repeat_password ends in 400, and a registration that does not end in 200
\* leaves the user table as it was, the stored hashes included.  (A
\* registration overtaken by another for the same email after its check is
\* refused by the unique column and ends in 500.)
EmailUniqueStep ==
    /\ UniqueEmails(users')
    /\ last'.op \in {"create_new_user", "create_new_user.begin"} =>
          /\ last'.status # 200 => users' = users
          /\ last'.status = 200 =>
                \E u \in users' \ users :
                    /\ users' = users \cup {u}
                    /\ u.email = last'.arg[1]
                    /\ u.hashed_password = <<"bcrypt", last'.arg[2]>>
          /\ last'.status = 500 =>
                \E t \in inflight \ inflight' : t.email = last'.arg[1]
          /\ (inflight' \subseteq inflight /\ inflight \subseteq inflight') =>
                /\ (\E u \in users : u.email = last'.arg[1]) => last'.status = 400
                /\ last'.arg[2] # last'.arg[3] => last'.status = 400
EmailUnique == [](UniqueEmails(users)) /\ [][EmailUniqueStep]_vars

\* a registration of a registered email with another password was refused and
\* the stored hash is still the first one
EmailUniqueWitness ==
    /\ last.op = "create_new_user" /\ last.status = 400
    /\ last.arg[2] = "qw" /\ last.arg[3] = "qw"
    /\ \E u \in users : u.email = last.arg[1] /\ u.hashed_password = <<"bcrypt", "pw">>

\* C15: a login that fails, because no user has the email or because the
\* password does not verify, is answered with the same response in every
\* state: status 400 and the detail "Incorrect email or password"; and it
\* changes no row, no blob and no sequence.
LoginOpaqueStep ==
    (last'.op = "login_user" /\ ~Registered(users, last'.arg[1], last'.arg[2])) =>
        /\ last' = [op |-> "login_user", user |-> NULL, id |-> NULL, s3 |-> <<>>,
                    arg |-> <<last'.arg[1], last'.arg[2],
                              <<"detail", "Incorrect email or password">> >>,
                    status |-> 400]
        /\ UNCHANGED <<tables, buckets, sequences, inflight, clock>>
LoginOpaque == [][LoginOpaqueStep]_vars

\* a login with an email nobody registered was refused while the submitted
\* password is the password of a registered user
LoginOpaqueWitness ==
    /\ last.op = "login_user" /\ last.status = 400
    /\ ~ \E u \in users : u.email = last.arg[1]
    /\ \E u \in users : u.hashed_password = <<"bcrypt", last.arg[2]>>

\* the Image rows stored for a project: their key is derived from its id
ImagesOf(rows, pid) ==
    {i \in rows : i.s3_key = ResizedKey(LogoKey(pid, i.image_name))}

\* C16: after upload_logo returns 200 on a project that had a logo, the
\* project has exactly one Image row, its logo_id points to it, the row has the
\* name of the uploaded file, and the row of the previous logo is gone,
\* whatever the storage deletes of the old logo answered.
LogoReplacedStep ==
    (last'.op = "upload_logo" /\ last'.status = 200 /\ HasLogo(last'.id)) =>
        LET project == CHOOSE p \in projects' : p.project_id = last'.id
        IN  /\ \E i \in images' : /\ i.image_id = project.logo_id
                                  /\ i.image_name = last'.arg
                                  /\ ImagesOf(images', last'.id) = {i}
            /\ LogoOf(last'.id) \notin images'
LogoReplaced == [][LogoReplacedStep]_vars

Stored(blobs, d, c) == d.s3_key \in DOMAIN blobs /\ blobs[d.s3_key] = c

\* C17: the document that an upload of file (n, c) creates has name n and its
\* blob is c; while the document is neither updated nor deleted no step
\* changes its blob, uploads to other projects included; and a download by the
\* owner or a participant that storage serves returns that blob and the name.
DocumentRoundTripStep ==
    /\ \A d \in documents' \ documents :
          \E t \in inflight \ inflight' :
              /\ t.project_id = d.project_id /\ t.file.filename = d.document_name
              /\ Stored(bucket_docs', d, t.file.content)
    /\ \A d \in documents \cap documents' :
          d.s3_key \in DOMAIN bucket_docs => Stored(bucket_docs', d, bucket_docs[d.s3_key])
    /\ (/\ last'.op = "download_document"
        /\ \E d \in documents : d.document_id = last'.id /\ Member(last'.user, d.project_id)
        /\ last'.s3 = <<TRUE>>) =>
          LET d == CHOOSE d \in documents : d.document_id = last'.id
          IN  /\ last'.status = 200
              /\ last'.arg = <<bucket_docs[d.s3_key], d.document_name>>
DocumentRoundTrip == [][DocumentRoundTripStep]_vars

\* C18: get_projects(user) lists every project the user owns or participates
\* in, lists no other project, and lists no project twice, also a project the
\* user both owns and participates in.
ProjectListStep ==
    last'.op = "get_projects" =>
        /\ last'.status = 200
        /\ {last'.arg[i] : i \in 1..Len(last'.arg)} =
               {p \in ProjectIds : Member(last'.user, p)}
        /\ \A i \in 1..Len(last'.arg), j \in 1..Len(last'.arg) :
               last'.arg[i] = last'.arg[j] => i = j
ProjectList == [][ProjectListStep]_vars

\* the list of a user who owns a project and was invited to it, while there is
\* another project the user has no part in
ProjectListWitness ==
    /\ last.op = "get_projects"
    /\ \E p \in ProjectIds : /\ Owner(p) = last.user
                             /\ Membership(last.user, p) \in participant_project
                             /\ \E i \in 1..Len(last.arg) : last.arg[i] = p
    /\ \E p \in ProjectIds : ~Member(last.user, p)

\* C19: no step removes or changes a User row; in particular after the
\* owner's delete_project on a project with participants the owner's and every
\* participant's row is still there, found under the same email.
UsersKeptStep ==
    /\ users \subseteq users'
    /\ (last'.op = "delete_project" /\ last'.id \in ProjectIds) =>
          \A u \in users :
              Member(u.user_id, last'.id) =>
                  \E v \in users' : v.email = u.email /\ v.user_id = u.user_id
CreateProjectStep ==
    last'.op = "create_project" =>
        /\ last'.status = 200
        /\ \E p \in projects' \ projects :
              /\ projects' = projects \cup {p}
              /\ p.project_id = last'.id
              /\ p.project_id \notin ProjectIds
              /\ p.owner_id = last'.user
              /\ p.name = last'.arg[1] /\ p.description = last'.arg[2]
              /\ p.logo_id = NULL
              /\ ~ \E d \in documents' : d.project_id = p.project_id
              /\ ~ \E r \in participant_project' : r.project_id = p.project_id
        /\ UNCHANGED <<users, documents, images, participant_project, buckets>>
CreateProjectAlways == [][CreateProjectStep]_vars

\* the owner of a project that has a document, a logo and a participant just
\* created a second project under the same name
CreateProjectAlwaysWitness ==
    /\ last.op = "create_project" /\ last.status = 200
    /\ \E q \in projects :
          /\ q.project_id # last.id /\ q.owner_id = last.user /\ q.name = last.arg[1]
          /\ q.logo_id # NULL
          /\ \E d \in documents : d.project_id = q.project_id
          /\ \E r \in participant_project : r.project_id = q.project_id

\* C21: a delete_document whose storage delete reports failure ends in 500 and
\* leaves the Document row and its blob; one whose storage delete reports
\* success ends in 200 with the blob and the row gone; no other step removes a
\* Document row; and download, update and delete of an id that no Document
\* row has end in 404.
DeleteDocumentStep ==
    /\ (last'.op = "delete_document" /\ last'.s3 = <<FALSE>>) =>
          /\ last'.status = 500
          /\ UNCHANGED <<documents, bucket_docs>>
    /\ (last'.op = "delete_document" /\ last'.s3 = <<TRUE>>) =>
          LET d == CHOOSE d \in documents : d.document_id = last'.id
          IN  /\ last'.status = 200
              /\ documents' = documents \ {d}
              /\ d.s3_key \notin DOMAIN bucket_docs'
    /\ (\E d \in documents : d \notin documents') =>
          /\ last'.op = "delete_document" /\ last'.s3 = <<TRUE>>
          /\ documents \ documents' = {d \in documents : d.document_id = last'.id}
    /\ (last'.op \in DocumentScopedOps /\ last'.id \notin DocumentIds) =>
          /\ last'.status = 404
          /\ UNCHANGED <<documents, bucket_docs>>
DeleteDocumentOrder == [][DeleteDocumentStep]_vars

\* a download, update or delete asked for the id of a document that was
\* deleted, and was answered 404
DeleteDocumentOrderWitness ==
    /\ last.op \in DocumentScopedOps /\ last.status = 404
    /\ last.id < sequences.documents /\ last.id \notin DocumentIds

\* C22: a delete_logo that reaches the storage calls removes the Image row,
\* nulls the project's logo_id and ends in 200 when both deletions report
\* success, and ends in 500 with the Image rows and the projects unchanged when
\* either reports failure; an Image row disappears only in a step whose two
\* deletions both reported success; download_logo and delete_logo on a project
\* without a logo end in 404.
DeleteLogoStep ==
    /\ (last'.op = "delete_logo" /\ Len(last'.s3) = 2) =>
          IF last'.s3 = <<TRUE, TRUE>>
          THEN /\ last'.status = 200
               /\ images' = images \ {LogoOf(last'.id)}
               /\ \A p \in projects' : p.project_id = last'.id => p.logo_id = NULL
               /\ LogoKey(last'.id, LogoOf(last'.id).image_name) \notin bucket_logos'
               /\ LogoOf(last'.id).s3_key \notin bucket_resize'
          ELSE /\ last'.status = 500
               /\ UNCHANGED <<images, projects>>
    /\ (\E i \in images : i \notin images') =>
          /\ last'.op \in {"delete_logo", "upload_logo"}
          /\ Len(last'.s3) >= 2 /\ last'.s3[1] /\ last'.s3[2]
    /\ (/\ last'.op \in {"download_logo", "delete_logo"}
        /\ last'.id \in ProjectIds /\ Member(last'.user, last'.id)
        /\ ~HasLogo(last'.id)) =>
          /\ last'.status = 404
          /\ UNCHANGED <<images, projects, bucket_logos, bucket_resize>>
DeleteLogoBoth == [][DeleteLogoStep]_vars

\* download_logo or delete_logo was answered 404 on a project whose logo had
\* been deleted
DeleteLogoBothWitness ==
    /\ last.op \in {"download_logo", "delete_logo"} /\ last.status = 404
    /\ last.id \in ProjectIds /\ ~HasLogo(last.id)
    /\ images = {} /\ sequences.images > 1

StorageOps == {"upload_documents", "update_document", "delete_document", "download_document",
               "upload_logo", "delete_logo", "download_logo"}

\* C23: an operation during which a storage upload, delete or download
\* reported failure ends in 500.
StorageFailureStep ==
    (last'.op \in StorageOps /\ \E i \in 1..Len(last'.s3) : ~last'.s3[i]) =>
        last'.status = 500
StorageFailure == [][StorageFailureStep]_vars

\* file i of the uploaded batch fails: its name is the name of a document of
\* the project or of an earlier file of the batch, or its upload reported
\* failure
NameTaken(i) ==
    \/ \E d \in documents : d.project_id = last'.id /\ d.document_name = last'.arg[i]
    \/ \E j \in 1..(i - 1) : last'.arg[j] = last'.arg[i]
FileFails(i) == NameTaken(i) \/ (i <= Len(last'.s3) /\ ~last'.s3[i])

\* C24: when a file of a batch fails, no Document row is added, the operation
\* ends in 400 (name taken) or 500 (upload failed), the blobs of the files
\* before the first failing one are in the documents bucket and no other blob
\* changed; when no file fails the operation ends in 200 and adds exactly one
\* row per file, with s3_key "{project_id}/{filename}".
BatchStep ==
    (/\ last'.op = "upload_documents"
     /\ last'.id \in ProjectIds /\ Member(last'.user, last'.id)) =>
        LET n == Len(last'.arg)
        IN  IF \E i \in 1..n : FileFails(i)
            THEN LET k == CHOOSE i \in 1..n :
                               FileFails(i) /\ \A j \in 1..(i - 1) : ~FileFails(j)
                 IN  /\ documents' = documents
                     /\ last'.status = IF NameTaken(k) THEN 400 ELSE 500
                     /\ \A j \in 1..(k - 1) :
                            DocKey(last'.id, last'.arg[j]) \in DOMAIN bucket_docs'
                     /\ \A key \in DOMAIN bucket_docs \cup DOMAIN bucket_docs' :
                            (\A j \in 1..(k - 1) : key # DocKey(last'.id, last'.arg[j])) =>
                                /\ key \in DOMAIN bucket_docs /\ key \in DOMAIN bucket_docs'
                                /\ bucket_docs'[key] = bucket_docs[key]
            ELSE /\ last'.status = 200
                 /\ documents \subseteq documents'
                 /\ Cardinality(documents' \ documents) = n
                 /\ \A i \in 1..n :
                        \E d \in documents' \ documents :
                            /\ d.document_name = last'.arg[i]
                            /\ d.project_id = last'.id
                            /\ d.s3_key = DocKey(last'.id, last'.arg[i])
BatchAtomic == [][BatchStep]_vars

\* a batch of two files failed at its second file, whose name a document of
\* the project has: the blob of the first file is stored, and no Document row
\* has its name
BatchAtomicWitness ==
    /\ last.op = "upload_documents" /\ last.status = 400 /\ Len(last.arg) = 2
    /\ \E d \in documents : d.project_id = last.id /\ d.document_name = last.arg[2]
    /\ DocKey(last.id, last.arg[1]) \in DOMAIN bucket_docs
    /\ ~ \E d \in documents : d.project_id = last.id /\ d.document_name = last.arg[1]

\* C25: update_document never changes a Document row (the id, name, project
\* and s3_key stay as the upload set them, with s3_key "{project_id}/{name}");
\* a successful update puts the new content under the row's s3_key and changes
\* no other blob, a failed one (500) changes neither row nor blob; the blob of
\* a document that stays is changed by no step other than a successful update
\* of it; and a served download returns the blob under the row's s3_key, which
\* is therefore the content of the most recent successful update.
UpdateKeepsLocationStep ==
    /\ \A d \in documents' : d.s3_key = DocKey(d.project_id, d.document_name)
    /\ last'.op = "update_document" =>
          /\ documents' = documents
          /\ IF last'.status = 200
             THEN \E d \in documents :
                      /\ d.document_id = last'.id
                      /\ bucket_docs' = Put(bucket_docs, d.s3_key, last'.arg[1])
             ELSE bucket_docs' = bucket_docs
    /\ \A d \in documents \cap documents' :
          (d.s3_key \in DOMAIN bucket_docs /\ ~Stored(bucket_docs', d, bucket_docs[d.s3_key])) =>
              last'.op = "update_document" /\ last'.status = 200 /\ last'.id = d.document_id
    /\ (last'.op = "download_document" /\ last'.status = 200) =>
          \E d \in documents :
              /\ d.document_id = last'.id
              /\ last'.arg = <<bucket_docs[d.s3_key], d.document_name>>
UpdateKeepsLocation == [][UpdateKeepsLocationStep]_vars

UpdateOps == {"update_project", "main.update_project"}

\* C26, as the specification states it: from the same project and the same
\* payload without a description, the canonical update keeps the description
\* and the legacy update does not keep it.
LegacyFullReplaceStep ==
    (/\ last'.op \in UpdateOps /\ last'.status = 200
     /\ last'.arg[2] = Absent) =>
        LET old == CHOOSE p \in projects : p.project_id = last'.id
            new == CHOOSE p \in projects' : p.project_id = last'.id
        IN  IF last'.op = "update_project"
            THEN new.description = old.description
            ELSE new.description # old.description
SurfacesAgreeStep ==
    last'.op \in UpdateOps =>
        IF last'.id \notin ProjectIds THEN last'.status = 404 /\ projects' = projects
        ELSE IF ~Member(last'.user, last'.id) THEN last'.status = 403 /\ projects' = projects
        ELSE LET old == CHOOSE p \in projects : p.project_id = last'.id
                 new == [old EXCEPT
                           !.name = IF last'.arg[1] # Absent THEN last'.arg[1] ELSE @,
                           !.description = IF last'.arg[2] # Absent THEN last'.arg[2] ELSE @]
             IN  /\ last'.status = 200
                 /\ projects' = (projects \ {old}) \cup {new}
ResolverStep ==
    (last'.op # "none" /\ request'.state = "authenticated") =>
        LET payload == request'.user
        IN  IF "sub" \notin DOMAIN payload
            THEN last'.op = "get_authenticated_user" /\ last'.status = 401
            ELSE IF ~ \E u \in users : u.email = payload.sub
            THEN last'.op = "get_authenticated_user" /\ last'.status = 404
            ELSE /\ last'.op # "get_authenticated_user"
                 /\ \E u \in users : u.user_id = last'.user /\ u.email = payload.sub
Resolver == [][ResolverStep]_vars

InvitedRow == [project_id |-> last'.id, user_id |-> UserByEmail(last'.arg[1]).user_id]

\* C28: the membership relation holds at most one row per (project_id,
\* user_id), also when invitations of the same pair overlap: an invite that
\* ends in 200 adds exactly the row of a pair that had none, an invite that
\* ends otherwise adds nothing, and no step removes a row; so of the invites of
\* one pair, overlapping or not, at most one ends in 200.
MembershipUniqueStep ==
    /\ \A r1 \in participant_project', r2 \in participant_project' :
          (r1.project_id = r2.project_id /\ r1.user_id = r2.user_id) => r1 = r2
    /\ participant_project \subseteq participant_project'
    /\ last'.op = "invite" =>
          IF last'.status = 200
          THEN /\ InvitedRow \notin participant_project
               /\ participant_project' = participant_project \cup {InvitedRow}
          ELSE participant_project' = participant_project
    /\ last'.op # "invite" => participant_project' = participant_project
MembershipUnique == [][MembershipUniqueStep]_vars

\* two invitations of one pair passed the is_participant test together; the
\* first was stored and the second has just been refused by the key (500)
MembershipUniqueWitness ==
    /\ last.op = "invite" /\ last.status = 500
    /\ [project_id |-> last.id, user_id |-> UserByEmail(last.arg[1]).user_id]
           \in participant_project

\* C29: every Document row names an existing Project, every membership row an
\* existing Project and an existing User, every non-null logo_id an existing
\* Image, no two projects share a logo_id, and every Image row is the logo of
\* exactly one project.
ReferentialIntegrity ==
    /\ \A d \in documents : d.project_id \in ProjectIds
    /\ \A m \in participant_project : m.project_id \in ProjectIds /\ m.user_id \in UserIds
    /\ \A p \in projects : p.logo_id # NULL => \E i \in images : i.image_id = p.logo_id
    /\ \A p \in projects, q \in projects :
          (p.logo_id # NULL /\ p.logo_id = q.logo_id) => p = q
    /\ \A i \in images : Cardinality({p \in projects : p.logo_id = i.image_id}) = 1

\* C30: upload_logo on a project that has a logo, when both storage deletes of
\* the old logo succeed and the upload of the new file fails, ends in 500 and
\* leaves the project without a logo: its logo_id is null, the old Image row
\* is gone and no row was added, and the old original and the old resized
\* variant are gone from their buckets.
OldLogoLostStep ==
    (/\ last'.op = "upload_logo"
     /\ last'.id \in ProjectIds /\ Member(last'.user, last'.id) /\ HasLogo(last'.id)
     /\ last'.s3 = <<TRUE, TRUE, FALSE>>) =>
        LET old == LogoOf(last'.id)
            project == CHOOSE p \in projects' : p.project_id = last'.id
        IN  /\ last'.status = 500
            /\ project.logo_id = NULL
            /\ images' = images \ {old}
            /\ LogoKey(last'.id, old.image_name) \notin bucket_logos'
            /\ old.s3_key \notin bucket_resize'
OldLogoLost == [][OldLogoLostStep]_vars

\* a project that had a logo was given a new file whose upload failed after
\* the old logo was deleted: 500, and the project has no logo, and no Image row
\* and no blob is left
OldLogoLostWitness ==
    /\ last.op = "upload_logo" /\ last.status = 500
    /\ last.s3 = <<TRUE, TRUE, FALSE>>
    /\ \E p \in projects : p.project_id = last.id /\ p.logo_id = NULL
    /\ images = {} /\ bucket_logos = {} /\ bucket_resize = {}
    /\ sequences.images > 1
=============================================================================
